---------------------------- MODULE Spec2Model ----------------------------
(***************************************************************************)
(* A model of the runnable examples of the Python OOP course: the two      *)
(* exercise notebooks (the library classes and the users.json processing   *)
(* tool) and the lesson snippets the notebooks repeat (Car.set_price, the  *)
(* Meta metaclass, the Singleton pattern), and the stand-alone snippets of *)
(* the lessons (BankAccount, change_directory, require_permission,         *)
(* MethodEnforcer, the refactoring examples, the stacked decorators,       *)
(* add_to_list, Car.class_variable, the Person JSON round trip, the        *)
(* examples that write data.pkl, data.json and data.txt, read_json on any  *)
(* path, a UserIterator whose list grows, Singleton() from two threads,    *)
(* the try/except/finally example).                                        *)
(*                                                                         *)
(* Every example is an independent program, so every example has its own   *)
(* group of variables, its own initial condition and its own               *)
(* specification; the variables of the other examples stay at their idle   *)
(* values.  Text produced by an f-string is a tuple of its parts, a str    *)
(* that the code transforms (title, upper) is a tuple of characters.       *)
(***************************************************************************)
EXTENDS Integers, Sequences, FiniteSets, TLC

VARIABLES
    \* oop-exercises.ipynb: Library and LibraryMember
    books,            \* Library.books
    add_calls,        \* history: number of add_book calls made on the library
    borrowed_books,   \* LibraryMember.borrowed_books, per member
    borrow_log,       \* history: the objects passed to borrow_book, per member
    \* oop-exercises.ipynb: User; 04_encapsulation.md: Car
    user_name,        \* User.__name
    user_age,         \* User.__age
    car_price,        \* Car.__price
    stdout,           \* the lines printed by set_age and set_price
    last_call,        \* history: the latest setter call, [op, arg]
    \* oop-exercises.ipynb: Rating
    ratings,          \* the Rating objects made so far: object i has rating ratings[i]
    last_add,         \* history: the latest r1 + r2, [left, right, result] (object ids)
    \* oop-exercises.ipynb: MetaBook; 11_metaclasses-in-python.md: Meta
    classes,          \* the classes made so far: [meta, base, dict]
    \* core-concepts-exercises.ipynb: main
    users_json,       \* the file users.json: [exists, text]
    runs,             \* history: number of completed runs of main()
    users,            \* main's local users, as the latest run left it
    processed_users,  \* main's local processed_users, as the latest run left it
    cell_output,      \* the output of the latest run of the cell that calls main()
    file_at_start,    \* history: users.json as it was before the first run
    \* core-concepts-exercises.ipynb: UserIterator
    it_users,         \* UserIterator.users
    it_index,         \* UserIterator.index
    it_results,       \* history: the outcome of every __next__ call, in call order
    \* core-concepts-exercises.ipynb: FileHandler used in a with statement
    fs,               \* the files on disk, by path: [exists, data]
    handles,          \* the file objects open() has returned: [path, mode, closed]
    fh_path,          \* FileHandler.file_path
    fh_mode,          \* FileHandler.mode
    fh_file,          \* FileHandler.file: index into handles, 0 while unset
    with_pc,          \* where the with statement is: "before", "body", "after"
    body_exc,         \* history: the exception the body raised, or None
    propagated,       \* the exception that left the with statement, or None
    \* design-patterns.md: Singleton, Subject and Observer
    Singleton_instance,  \* Singleton._instance: an object id, 0 for None
    created,          \* history: number of objects super().__new__ has made
    returned,         \* history: the object every Singleton() call returned
    observers,        \* Subject._observers
    attached,         \* history: the observers passed to attach, in call order
    updates,          \* history: the update(message) calls made, [observer, message]
    \* exception-handling.md: BankAccount
    balance,          \* BankAccount.balance
    opening_balance,  \* history: the balance the account was constructed with
    withdraw_calls,   \* history: number of withdraw calls made
    last_withdraw,    \* history: the latest withdraw call, [amount, before, raised]
    \* context-managers.md: change_directory used in a with statement
    cwd,              \* the working directory of the process, os.getcwd()
    original_path,    \* change_directory's local original_path, None before it is set
    cd_pc,            \* where the with statement is: "before", "body", "after"
    cd_entry,         \* history: os.getcwd() when the latest block was entered, or None
    cd_exc,           \* history: the exception the body of the latest block raised, or None
    cd_propagated,    \* the exception that left the latest with statement, or None
    cd_blocks,        \* history: number of with statements started
    \* decorators-in-python.md: require_permission and delete_user
    permission,       \* the argument of @require_permission(...) above delete_user
    body_runs,        \* history: the arguments of every run of delete_user's body
    perm_stdout,      \* the lines printed by delete_user
    perm_calls,       \* history: number of calls of the decorated delete_user
    last_perm,        \* history: the latest call, [user, username, raised, result]
    \* 11_metaclasses-in-python.md: MethodEnforcer
    staticmethod_callable,  \* callable(staticmethod(f)): TRUE from Python 3.10 on
    enforced,         \* the classes MethodEnforcer has created: their dicts
    enforcer_calls,   \* history: number of class statements with metaclass=MethodEnforcer
    last_enforcer,    \* history: the latest class statement, [dct, raised]
    \* part_003 (Refactoring with OOP): Employee and Car, before and after
    employees,        \* the employees, [name, role], the usage loop runs over
    salaries_before,  \* what the original version's loop got: [name, salary] per employee
    salaries_after,   \* what the refactored version's loop got: [name, salary] per employee
    drive_before,     \* what Car().drive() returned in the inheritance-based version
    drive_after,      \* what Car(Engine()).drive() returned in the composition-based version
    refactor_ran,     \* history: which of the four programs have run
    \* Manual.md, "Decoradores Anidados": decorador_uno, decorador_dos, decir_hola
    written,          \* the @ lines above def decir_hola, from the top one down
    decir_hola,       \* the object the name decir_hola is bound to
    deco_phase,       \* where a call of decir_hola() is: "idle", "down", "up"
    deco_depth,       \* the number of wrappers the running call is inside of
    deco_stdout,      \* the lines printed so far
    deco_calls,       \* history: number of completed calls of decir_hola()
    \* mutable-and-immutable-objects.md: add_to_list, both versions
    lists,            \* the list objects alive: object i has the elements lists[i]
    passed_values,    \* history: the values of the calls of the my_list=[] version that omit my_list
    list_calls,       \* history: number of calls of either version
    last_list_call,   \* history: the latest call, [version, my_list, value, ref]
    \* Manual.md: Car.class_variable; 03_attributes-and-methods.md: Person.species
    class_dict,       \* Car.__dict__, the class attributes
    instance_dicts,   \* the __dict__ of every instance of Car
    attr_assigns,     \* history: number of attribute assignments made
    last_assign,      \* history: the latest assignment, [target, value]
    \* 05_object-serialization.md: Person, PersonEncoder, person_decoder
    person_p,         \* the __dict__ of the Person p: [key, value] pairs in insertion order
    json_string,      \* the str json.dumps returned, <<>> before any dumps
    dumped_via,       \* history: how json_string was made: "to_dict", "PersonEncoder", None
    p_obj,            \* the __dict__ of the object json.loads returned, <<>> before loads
    \* 05_object-serialization.md and 10_list-comprehensions-and-lambda-functions.md:
    \* the examples that write data.pkl, data.json and data.txt
    scratch,          \* the files on disk, by path: [exists, data]
    ex_pc,            \* per example: 0 before it, 1 after its write, 2 after its read (finished)
    ex_read,          \* per example: what its read step got, <<>> before
    ex_runs,          \* history, per example: number of finished runs
    \* core-concepts-exercises.ipynb: read_json called on a path of its own
    rj_dir,           \* whether the directory named in file_path exists
    rj_file,          \* the file at file_path: [exists, text]
    rj_calls,         \* history: calls of read_json made
    rj_last,          \* history: [before, result, out, raised] of the last call
    \* core-concepts-exercises.ipynb: a UserIterator whose list is appended to
    grow_users,       \* the list object shared by the caller and UserIterator.users
    grow_index,       \* UserIterator.index
    grow_results,     \* history: per __next__ call, [raised, value]
    grow_appends,     \* history: number of users.append calls made
    \* design-patterns.md: Singleton() called from two threads
    th_instance,      \* Singleton._instance: an object id, 0 for None
    th_created,       \* number of objects super().__new__(cls) has made
    th_pc,            \* per thread: where it is inside __new__
    th_obj,           \* per thread: the object its super().__new__(cls) made, 0 for none
    th_calls,         \* per thread: Singleton() calls begun
    th_returned,      \* history: [thread, obj] per finished call, in order of return
    \* exception-handling.md: the try/except/finally example reading data.txt
    fin_exists,       \* whether data.txt exists
    fin_text,         \* the content of data.txt
    fin_file,         \* what the name `file` is bound to: "unbound" or a file object
    fin_open,         \* the file objects that are open
    fin_data,         \* the name `data`: <<text>>, <<>> while unbound
    fin_pc,           \* the clause to run next: try, except, finally, done
    fin_stdout,       \* the lines printed
    fin_raised        \* the exception that left the statement, None for none

libVars  == <<books, add_calls, borrowed_books, borrow_log>>
userVars == <<user_name, user_age, car_price, stdout, last_call>>
ratingVars == <<ratings, last_add>>
metaVars == <<classes>>
mainVars == <<users_json, runs, users, processed_users, cell_output, file_at_start>>
iterVars == <<it_users, it_index, it_results>>
fileVars == <<fs, handles, fh_path, fh_mode, fh_file, with_pc, body_exc, propagated>>
patVars  == <<Singleton_instance, created, returned, observers, attached, updates>>
bankVars == <<balance, opening_balance, withdraw_calls, last_withdraw>>
chdirVars == <<cwd, original_path, cd_pc, cd_entry, cd_exc, cd_propagated, cd_blocks>>
permVars == <<permission, body_runs, perm_stdout, perm_calls, last_perm>>
enforcerVars == <<staticmethod_callable, enforced, enforcer_calls, last_enforcer>>
refactorVars == <<employees, salaries_before, salaries_after, drive_before, drive_after, refactor_ran>>
decoVars == <<written, decir_hola, deco_phase, deco_depth, deco_stdout, deco_calls>>
listVars == <<lists, passed_values, list_calls, last_list_call>>
attrVars == <<class_dict, instance_dicts, attr_assigns, last_assign>>
personVars == <<person_p, json_string, dumped_via, p_obj>>
scratchVars == <<scratch, ex_pc, ex_read, ex_runs>>
readJsonVars == <<rj_dir, rj_file, rj_calls, rj_last>>
growVars == <<grow_users, grow_index, grow_results, grow_appends>>
threadsVars == <<th_instance, th_created, th_pc, th_obj, th_calls, th_returned>>
finallyVars == <<fin_exists, fin_text, fin_file, fin_open, fin_data, fin_pc, fin_stdout, fin_raised>>
coreVars == <<libVars, userVars, ratingVars, metaVars, mainVars, iterVars, fileVars, patVars>>
\* The variables of the lesson snippets, and for every snippet the variables
\* of all the other examples.
lessonVars == <<bankVars, chdirVars, permVars, enforcerVars, refactorVars, decoVars, listVars, attrVars, personVars, scratchVars, readJsonVars, growVars, threadsVars, finallyVars>>
exceptBank == <<coreVars, chdirVars, permVars, enforcerVars, refactorVars, decoVars, listVars, attrVars, personVars, scratchVars, readJsonVars, growVars, threadsVars, finallyVars>>
exceptChdir == <<coreVars, bankVars, permVars, enforcerVars, refactorVars, decoVars, listVars, attrVars, personVars, scratchVars, readJsonVars, growVars, threadsVars, finallyVars>>
exceptPerm == <<coreVars, bankVars, chdirVars, enforcerVars, refactorVars, decoVars, listVars, attrVars, personVars, scratchVars, readJsonVars, growVars, threadsVars, finallyVars>>
exceptEnforcer == <<coreVars, bankVars, chdirVars, permVars, refactorVars, decoVars, listVars, attrVars, personVars, scratchVars, readJsonVars, growVars, threadsVars, finallyVars>>
exceptRefactor == <<coreVars, bankVars, chdirVars, permVars, enforcerVars, decoVars, listVars, attrVars, personVars, scratchVars, readJsonVars, growVars, threadsVars, finallyVars>>
exceptDeco == <<coreVars, bankVars, chdirVars, permVars, enforcerVars, refactorVars, listVars, attrVars, personVars, scratchVars, readJsonVars, growVars, threadsVars, finallyVars>>
exceptList == <<coreVars, bankVars, chdirVars, permVars, enforcerVars, refactorVars, decoVars, attrVars, personVars, scratchVars, readJsonVars, growVars, threadsVars, finallyVars>>
exceptAttr == <<coreVars, bankVars, chdirVars, permVars, enforcerVars, refactorVars, decoVars, listVars, personVars, scratchVars, readJsonVars, growVars, threadsVars, finallyVars>>
exceptPerson == <<coreVars, bankVars, chdirVars, permVars, enforcerVars, refactorVars, decoVars, listVars, attrVars, scratchVars, readJsonVars, growVars, threadsVars, finallyVars>>
exceptScratch == <<coreVars, bankVars, chdirVars, permVars, enforcerVars, refactorVars, decoVars, listVars, attrVars, personVars, readJsonVars, growVars, threadsVars, finallyVars>>
exceptReadJson == <<coreVars, bankVars, chdirVars, permVars, enforcerVars, refactorVars, decoVars, listVars, attrVars, personVars, scratchVars, growVars, threadsVars, finallyVars>>
exceptGrow == <<coreVars, bankVars, chdirVars, permVars, enforcerVars, refactorVars, decoVars, listVars, attrVars, personVars, scratchVars, readJsonVars, threadsVars, finallyVars>>
exceptThreads == <<coreVars, bankVars, chdirVars, permVars, enforcerVars, refactorVars, decoVars, listVars, attrVars, personVars, scratchVars, readJsonVars, growVars, finallyVars>>
exceptFinally == <<coreVars, bankVars, chdirVars, permVars, enforcerVars, refactorVars, decoVars, listVars, attrVars, personVars, scratchVars, readJsonVars, growVars, threadsVars>>
vars     == <<coreVars, lessonVars>>

None == "None"

Range(s) == {s[i] : i \in DOMAIN s}

(***************************************************************************)
(* Bounds of the model.                                                    *)
(***************************************************************************)
MaxBooks == 2        \* longest Library.books list explored
MaxLoans == 3        \* longest LibraryMember.borrowed_books list explored
MaxOut   == 2        \* most lines printed by the setters
MaxArg   == 2        \* setter arguments range over -MaxArg..MaxArg
MaxRatings == 4      \* most Rating objects alive
MaxClasses == 3      \* most classes created
MaxUsers == 2        \* most records in the initial users.json
MaxRuns  == 2        \* most runs of main()
MaxIterUsers == 3    \* longest list a UserIterator is built over
MaxNextCalls == 5    \* most __next__ calls on one UserIterator
MaxOpens == 2        \* most files opened by with statements
MaxWrites == 1       \* most chunks written to one file
MaxCalls == 3        \* most Singleton() calls
MaxObservers == 3    \* most attach calls on the Subject
MaxNotifies == 1     \* update calls explored: as many as MaxNotifies notifies of a full Subject make
MaxBalance == 3      \* largest balance a BankAccount is constructed with
MaxAmount == 4       \* withdraw amounts range over -MaxAmount..MaxAmount
MaxWithdraws == 3    \* most withdraw calls on one BankAccount
MaxPermCalls == 2    \* most calls of the decorated delete_user
MaxPermissions == 2  \* longest "permissions" list of a user
MaxEnforced == 1     \* most class statements with metaclass=MethodEnforcer
MaxBodyAttrs == 2    \* most attributes in the body of such a class
MaxStaff == 2        \* longest employees list explored
MaxDecorators == 3   \* most @ lines above def decir_hola
MaxDecoCalls == 2    \* most calls of decir_hola()
MaxListCalls == 3    \* most calls of add_to_list, both versions together
MaxAssigns == 3      \* most assignments to class_variable
MaxExampleRuns == 2  \* most runs of one file-writing example
MaxReadCalls == 2
MaxGrowUsers == 2
MaxGrowCalls == 3
MaxAppends == 2
MaxThreadCalls == 2
MaxTextLen == 2
MaxBlocks == 3       \* most with change_directory(...) statements run

(***************************************************************************)
(* Idle values: a group of variables whose example is not running.         *)
(***************************************************************************)
Members == {"member1", "member2"}

IdleLib ==
    /\ books = <<>>
    /\ add_calls = 0
    /\ borrowed_books = [m \in Members |-> <<>>]
    /\ borrow_log = [m \in Members |-> <<>>]

IdleUser ==
    /\ user_name = None
    /\ user_age = 0
    /\ car_price = 0
    /\ stdout = <<>>
    /\ last_call = [op |-> None, arg |-> 0]

IdleRating ==
    /\ ratings = <<>>
    /\ last_add = [left |-> 0, right |-> 0, result |-> 0]

IdleMeta ==
    /\ classes = <<>>

IdleMain ==
    /\ users_json = [exists |-> FALSE, text |-> <<>>]
    /\ file_at_start = [exists |-> FALSE, text |-> <<>>]
    /\ runs = 0
    /\ users = <<>>
    /\ processed_users = <<>>
    /\ cell_output = <<>>

IdleIter ==
    /\ it_users = <<>>
    /\ it_index = 0
    /\ it_results = <<>>

Paths == {"users.json", "test.txt"}

IdleFile ==
    /\ fs = [path \in Paths |-> [exists |-> FALSE, data |-> <<>>]]
    /\ handles = <<>>
    /\ fh_path = "users.json"
    /\ fh_mode = "r"
    /\ fh_file = 0
    /\ with_pc = "before"
    /\ body_exc = None
    /\ propagated = None

IdlePatterns ==
    /\ Singleton_instance = 0
    /\ created = 0
    /\ returned = <<>>
    /\ observers = <<>>
    /\ attached = <<>>
    /\ updates = <<>>

IdleCore ==
    /\ IdleLib /\ IdleUser /\ IdleRating /\ IdleMeta
    /\ IdleMain /\ IdleIter /\ IdleFile /\ IdlePatterns

IdleBank ==
    /\ balance = 0
    /\ opening_balance = 0
    /\ withdraw_calls = 0
    /\ last_withdraw = [amount |-> 0, before |-> 0, raised |-> None]

IdleChdir ==
    /\ cwd = "/home/user"
    /\ original_path = None
    /\ cd_pc = "before"
    /\ cd_entry = None
    /\ cd_exc = None
    /\ cd_propagated = None
    /\ cd_blocks = 0

IdlePerm ==
    /\ permission = "admin"
    /\ body_runs = <<>>
    /\ perm_stdout = <<>>
    /\ perm_calls = 0
    /\ last_perm = [user |-> <<>>, username |-> None, raised |-> None, result |-> None]

IdleEnforcer ==
    /\ staticmethod_callable = TRUE
    /\ enforced = <<>>
    /\ enforcer_calls = 0
    /\ last_enforcer = [dct |-> <<>>, raised |-> None]

IdleRefactor ==
    /\ employees = <<>>
    /\ salaries_before = <<>>
    /\ salaries_after = <<>>
    /\ drive_before = <<>>
    /\ drive_after = <<>>
    /\ refactor_ran = {}

IdleDeco ==
    /\ written = <<>>
    /\ decir_hola = <<>>
    /\ deco_phase = "idle"
    /\ deco_depth = 0
    /\ deco_stdout = <<>>
    /\ deco_calls = 0

IdleList ==
    /\ lists = << <<>>, <<>> >>
    /\ passed_values = <<>>
    /\ list_calls = 0
    /\ last_list_call = [version |-> None, my_list |-> 0, value |-> 0, ref |-> 0]

IdleAttr ==
    /\ class_dict = [class_variable |-> "This is a class-level variable"]
    /\ instance_dicts = [i \in {"car1", "car2"} |-> <<>>]
    /\ attr_assigns = 0
    /\ last_assign = [target |-> None, value |-> None]

IdlePerson ==
    /\ person_p = <<>>
    /\ json_string = <<>>
    /\ dumped_via = None
    /\ p_obj = <<>>

IdleScratch ==
    /\ scratch = [f \in {"data.pkl", "data.json", "data.txt"} |-> [exists |-> FALSE, data |-> <<>>]]
    /\ ex_pc = [e \in {"pickle", "json", "FileManager"} |-> 0]
    /\ ex_read = [e \in {"pickle", "json", "FileManager"} |-> <<>>]
    /\ ex_runs = [e \in {"pickle", "json", "FileManager"} |-> 0]

IdleReadJson ==
    /\ rj_dir = TRUE
    /\ rj_file = [exists |-> FALSE, text |-> <<>>]
    /\ rj_calls = 0
    /\ rj_last = [before |-> [exists |-> FALSE, text |-> <<>>], result |-> <<>>,
                  out |-> <<>>, raised |-> None]

IdleGrow ==
    /\ grow_users = <<>>
    /\ grow_index = 0
    /\ grow_results = <<>>
    /\ grow_appends = 0

IdleThreads ==
    /\ th_instance = 0
    /\ th_created = 0
    /\ th_pc = [t \in {"t1", "t2"} |-> "idle"]
    /\ th_obj = [t \in {"t1", "t2"} |-> 0]
    /\ th_calls = [t \in {"t1", "t2"} |-> 0]
    /\ th_returned = <<>>

IdleFinally ==
    /\ fin_exists = FALSE
    /\ fin_text = <<>>
    /\ fin_file = "unbound"
    /\ fin_open = {}
    /\ fin_data = <<>>
    /\ fin_pc = "try"
    /\ fin_stdout = <<>>
    /\ fin_raised = None

\* No lesson snippet is running; every example but the named one is idle.
IdleLessons ==
    /\ IdleBank
    /\ IdleChdir
    /\ IdlePerm
    /\ IdleEnforcer
    /\ IdleRefactor
    /\ IdleDeco
    /\ IdleList
    /\ IdleAttr
    /\ IdlePerson
    /\ IdleScratch
    /\ IdleReadJson
    /\ IdleGrow
    /\ IdleThreads
    /\ IdleFinally

IdleExceptBank ==
    /\ IdleCore
    /\ IdleChdir
    /\ IdlePerm
    /\ IdleEnforcer
    /\ IdleRefactor
    /\ IdleDeco
    /\ IdleList
    /\ IdleAttr
    /\ IdlePerson
    /\ IdleScratch
    /\ IdleReadJson
    /\ IdleGrow
    /\ IdleThreads
    /\ IdleFinally

IdleExceptChdir ==
    /\ IdleCore
    /\ IdleBank
    /\ IdlePerm
    /\ IdleEnforcer
    /\ IdleRefactor
    /\ IdleDeco
    /\ IdleList
    /\ IdleAttr
    /\ IdlePerson
    /\ IdleScratch
    /\ IdleReadJson
    /\ IdleGrow
    /\ IdleThreads
    /\ IdleFinally

IdleExceptPerm ==
    /\ IdleCore
    /\ IdleBank
    /\ IdleChdir
    /\ IdleEnforcer
    /\ IdleRefactor
    /\ IdleDeco
    /\ IdleList
    /\ IdleAttr
    /\ IdlePerson
    /\ IdleScratch
    /\ IdleReadJson
    /\ IdleGrow
    /\ IdleThreads
    /\ IdleFinally

IdleExceptEnforcer ==
    /\ IdleCore
    /\ IdleBank
    /\ IdleChdir
    /\ IdlePerm
    /\ IdleRefactor
    /\ IdleDeco
    /\ IdleList
    /\ IdleAttr
    /\ IdlePerson
    /\ IdleScratch
    /\ IdleReadJson
    /\ IdleGrow
    /\ IdleThreads
    /\ IdleFinally

IdleExceptRefactor ==
    /\ IdleCore
    /\ IdleBank
    /\ IdleChdir
    /\ IdlePerm
    /\ IdleEnforcer
    /\ IdleDeco
    /\ IdleList
    /\ IdleAttr
    /\ IdlePerson
    /\ IdleScratch
    /\ IdleReadJson
    /\ IdleGrow
    /\ IdleThreads
    /\ IdleFinally

IdleExceptDeco ==
    /\ IdleCore
    /\ IdleBank
    /\ IdleChdir
    /\ IdlePerm
    /\ IdleEnforcer
    /\ IdleRefactor
    /\ IdleList
    /\ IdleAttr
    /\ IdlePerson
    /\ IdleScratch
    /\ IdleReadJson
    /\ IdleGrow
    /\ IdleThreads
    /\ IdleFinally

IdleExceptList ==
    /\ IdleCore
    /\ IdleBank
    /\ IdleChdir
    /\ IdlePerm
    /\ IdleEnforcer
    /\ IdleRefactor
    /\ IdleDeco
    /\ IdleAttr
    /\ IdlePerson
    /\ IdleScratch
    /\ IdleReadJson
    /\ IdleGrow
    /\ IdleThreads
    /\ IdleFinally

IdleExceptAttr ==
    /\ IdleCore
    /\ IdleBank
    /\ IdleChdir
    /\ IdlePerm
    /\ IdleEnforcer
    /\ IdleRefactor
    /\ IdleDeco
    /\ IdleList
    /\ IdlePerson
    /\ IdleScratch
    /\ IdleReadJson
    /\ IdleGrow
    /\ IdleThreads
    /\ IdleFinally

IdleExceptPerson ==
    /\ IdleCore
    /\ IdleBank
    /\ IdleChdir
    /\ IdlePerm
    /\ IdleEnforcer
    /\ IdleRefactor
    /\ IdleDeco
    /\ IdleList
    /\ IdleAttr
    /\ IdleScratch
    /\ IdleReadJson
    /\ IdleGrow
    /\ IdleThreads
    /\ IdleFinally

IdleExceptScratch ==
    /\ IdleCore
    /\ IdleBank
    /\ IdleChdir
    /\ IdlePerm
    /\ IdleEnforcer
    /\ IdleRefactor
    /\ IdleDeco
    /\ IdleList
    /\ IdleAttr
    /\ IdlePerson
    /\ IdleReadJson
    /\ IdleGrow
    /\ IdleThreads
    /\ IdleFinally

IdleExceptReadJson ==
    /\ IdleCore
    /\ IdleBank
    /\ IdleChdir
    /\ IdlePerm
    /\ IdleEnforcer
    /\ IdleRefactor
    /\ IdleDeco
    /\ IdleList
    /\ IdleAttr
    /\ IdlePerson
    /\ IdleScratch
    /\ IdleGrow
    /\ IdleThreads
    /\ IdleFinally

IdleExceptGrow ==
    /\ IdleCore
    /\ IdleBank
    /\ IdleChdir
    /\ IdlePerm
    /\ IdleEnforcer
    /\ IdleRefactor
    /\ IdleDeco
    /\ IdleList
    /\ IdleAttr
    /\ IdlePerson
    /\ IdleScratch
    /\ IdleReadJson
    /\ IdleThreads
    /\ IdleFinally

IdleExceptThreads ==
    /\ IdleCore
    /\ IdleBank
    /\ IdleChdir
    /\ IdlePerm
    /\ IdleEnforcer
    /\ IdleRefactor
    /\ IdleDeco
    /\ IdleList
    /\ IdleAttr
    /\ IdlePerson
    /\ IdleScratch
    /\ IdleReadJson
    /\ IdleGrow
    /\ IdleFinally

IdleExceptFinally ==
    /\ IdleCore
    /\ IdleBank
    /\ IdleChdir
    /\ IdlePerm
    /\ IdleEnforcer
    /\ IdleRefactor
    /\ IdleDeco
    /\ IdleList
    /\ IdleAttr
    /\ IdlePerson
    /\ IdleScratch
    /\ IdleReadJson
    /\ IdleGrow
    /\ IdleThreads

(***************************************************************************)
(* oop-exercises.ipynb, steps 1, 4 and 5: Book, EBook, AudioBook.          *)
(* The objects of the notebook, by the name of the variable that holds     *)
(* them.                                                                   *)
(***************************************************************************)
BookObjects ==
    [ book1      |-> [cls |-> "Book", title |-> "1984",
                      author |-> "George Orwell", year |-> 1949],
      ebook1     |-> [cls |-> "EBook", title |-> "Python Guide",
                      author |-> "John Doe", year |-> 2022, file_size |-> 5],
      audiobook1 |-> [cls |-> "AudioBook", title |-> "Learn Python",
                      author |-> "Jane Doe", year |-> 2023, duration |-> 300] ]

BookIds == DOMAIN BookObjects

\* Book.get_info: f"{self.title} by {self.author}, published in {self.year}"
Book_get_info(o) ==
    <<o.title, " by ", o.author, ", published in ", o.year>>

\* EBook.get_info: super().get_info() + f" (File size: {self.file_size}MB)"
EBook_get_info(o) ==
    Book_get_info(o) \o <<" (File size: ", o.file_size, "MB)">>

\* AudioBook.get_info: super().get_info() + f" (Duration: {self.duration} min)"
AudioBook_get_info(o) ==
    Book_get_info(o) \o <<" (Duration: ", o.duration, " min)">>

\* A faulty variant of get_info: the call is bound to Book.get_info whatever the
\* object's class is (no dynamic dispatch).
get_info_static(o) == Book_get_info(o)

\* book.get_info(): the method of the object's own class.
get_info(o) ==
    CASE o.cls = "EBook"     -> EBook_get_info(o)
      [] o.cls = "AudioBook" -> AudioBook_get_info(o)
      [] OTHER               -> Book_get_info(o)

(***************************************************************************)
(* oop-exercises.ipynb, step 3: Library.                                   *)
(***************************************************************************)
\* A faulty variant of Library.add_book: a book already held is not added again.
Library_append_unique(bs, b) ==
    IF b \in Range(bs) THEN bs ELSE Append(bs, b)

\* self.books.append(book)
Library_append(bs, b) == Append(bs, b)

\* Library.__len__
Library__len__ == Len(books)

\* Library.__str__: f"Library: {self.name} with {len(self.books)} books"
Library__str__ == <<"Library: ", "City Library", " with ", Len(books), " books">>

\* Library.add_book(book)
add_book(b) ==
    /\ Len(books) < MaxBooks
    /\ books' = Library_append(books, b)
    /\ add_calls' = add_calls + 1
    /\ UNCHANGED <<borrowed_books, borrow_log, userVars, ratingVars, metaVars, mainVars, iterVars, fileVars, patVars, lessonVars>>

(***************************************************************************)
(* oop-exercises.ipynb, step 6: LibraryMember.                             *)
(***************************************************************************)
\* A faulty variant of borrow_book's append: an object the member already
\* holds is not appended again.
Member_append_unborrowed(bs, b) ==
    IF b \in Range(bs) THEN bs ELSE Append(bs, b)

\* self.borrowed_books.append(book)
Member_append(bs, b) == Append(bs, b)

\* LibraryMember.borrow_book(book)
borrow_book(m, b) ==
    /\ Len(borrowed_books[m]) < MaxLoans
    /\ borrowed_books' = [borrowed_books EXCEPT ![m] = Member_append(@, b)]
    /\ borrow_log' = [borrow_log EXCEPT ![m] = Append(@, b)]
    /\ UNCHANGED <<books, add_calls, userVars, ratingVars, metaVars, mainVars, iterVars, fileVars, patVars, lessonVars>>

\* LibraryMember.get_borrowed_books():
\* [book.get_info() for book in self.borrowed_books]
get_borrowed_books(m) ==
    [i \in 1..Len(borrowed_books[m]) |-> get_info(BookObjects[borrowed_books[m][i]])]

InitLibrary ==
    /\ books = <<>>
    /\ add_calls = 0
    /\ borrowed_books = [m \in Members |-> <<>>]
    /\ borrow_log = [m \in Members |-> <<>>]
    /\ IdleUser /\ IdleRating /\ IdleMeta /\ IdleMain /\ IdleIter /\ IdleFile /\ IdlePatterns /\ IdleLessons

NextLibrary ==
    \/ \E b \in BookIds : add_book(b)
    \/ \E m \in Members, b \in BookIds : borrow_book(m, b)

SpecLibrary == InitLibrary /\ [][NextLibrary]_vars

\* C1: in every reachable state of a Library, len(library), the book count
\* shown by str(library) and the number of add_book calls made on it are all
\* equal; a Book object added twice is counted twice.
C1_LenStrAddCallsAgree ==
    /\ Library__len__ = add_calls
    /\ Library__str__[4] = add_calls
    /\ Library__str__ = <<"Library: ", "City Library", " with ", add_calls, " books">>

\* C1 witness: the same Book object has been added twice and is counted twice.
C1_Witness ==
    /\ books = <<"book1", "book1">>
    /\ add_calls = 2
    /\ Library__len__ = 2

\* The text get_info() has to give for each object of the notebook, written
\* out per class as the notebook's expected outputs print it.
ExpectedInfo(b) ==
    CASE b = "book1" ->
           <<"1984", " by ", "George Orwell", ", published in ", 1949>>
      [] b = "ebook1" ->
           <<"Python Guide", " by ", "John Doe", ", published in ", 2022,
             " (File size: ", 5, "MB)">>
      [] b = "audiobook1" ->
           <<"Learn Python", " by ", "Jane Doe", ", published in ", 2023,
             " (Duration: ", 300, " min)">>

\* C2: get_borrowed_books() returns exactly one string per borrow_book call
\* made on that member, in call order, each the get_info() text of the
\* borrowed object as its own class defines it.
C2_BorrowedInfoInCallOrder ==
    \A m \in Members :
        /\ Len(get_borrowed_books(m)) = Len(borrow_log[m])
        /\ \A i \in 1..Len(borrow_log[m]) :
               get_borrowed_books(m)[i] = ExpectedInfo(borrow_log[m][i])

\* C2 witness: a member has borrowed an EBook, a Book and an AudioBook, in
\* that order, and the three texts come back in that order.
C2_Witness ==
    /\ borrow_log["member1"] = <<"ebook1", "book1", "audiobook1">>
    /\ Len(get_borrowed_books("member1")) = 3
    /\ get_borrowed_books("member1")[1][8] = "MB)"
    /\ get_borrowed_books("member1")[3][8] = " min)"

(***************************************************************************)
(* oop-exercises.ipynb, step 2: User; 04_encapsulation.md: Car.            *)
(***************************************************************************)
Args == (0 - MaxArg)..MaxArg

\* A faulty variant of User.set_age: the test is new_age >= 0.
User_set_age_allow_zero(age, new_age) ==
    IF new_age >= 0
      THEN [age |-> new_age, printed |-> <<>>]
      ELSE [age |-> age, printed |-> <<"Invalid age!">>]

\* User.set_age: the new value of __age and the lines printed.
User_set_age(age, new_age) ==
    IF new_age > 0
      THEN [age |-> new_age, printed |-> <<>>]
      ELSE [age |-> age, printed |-> <<"Invalid age!">>]

\* Car.set_price: the new value of __price and the lines printed.
Car_set_price(price, new_price) ==
    IF new_price > 0
      THEN [price |-> new_price, printed |-> <<>>]
      ELSE [price |-> price, printed |-> <<"Invalid price!">>]

\* user.set_age(new_age)
set_age(new_age) ==
    LET r == User_set_age(user_age, new_age) IN
    /\ Len(stdout) + Len(r.printed) <= MaxOut
    /\ user_age' = r.age
    /\ stdout' = stdout \o r.printed
    /\ last_call' = [op |-> "set_age", arg |-> new_age]
    /\ UNCHANGED <<user_name, car_price, libVars, ratingVars, metaVars, mainVars, iterVars, fileVars, patVars, lessonVars>>

\* car.set_price(new_price)
set_price(new_price) ==
    LET r == Car_set_price(car_price, new_price) IN
    /\ Len(stdout) + Len(r.printed) <= MaxOut
    /\ car_price' = r.price
    /\ stdout' = stdout \o r.printed
    /\ last_call' = [op |-> "set_price", arg |-> new_price]
    /\ UNCHANGED <<user_name, user_age, libVars, ratingVars, metaVars, mainVars, iterVars, fileVars, patVars, lessonVars>>

\* User(name, age) and Car(brand, model, price): the constructors store
\* their arguments as they are.
InitUser ==
    /\ user_name \in {"Alice", "Bob"}
    /\ user_age \in Args
    /\ car_price \in Args
    /\ stdout = <<>>
    /\ last_call = [op |-> None, arg |-> 0]
    /\ IdleLib /\ IdleRating /\ IdleMeta /\ IdleMain /\ IdleIter /\ IdleFile /\ IdlePatterns /\ IdleLessons

NextUser ==
    \/ \E n \in Args : set_age(n)
    \/ \E n \in Args : set_price(n)

SpecUser == InitUser /\ [][NextUser]_vars

\* C3: set_age(new_age) sets the age to new_age when new_age > 0; when
\* new_age <= 0 it prints 'Invalid age!' and leaves the age and the name
\* unchanged; Car.set_price follows the same rule for the price.
C3_SetterValidates ==
    [][ /\ (last_call'.op = "set_age" /\ last_call'.arg > 0) =>
              /\ user_age' = last_call'.arg
              /\ user_name' = user_name
              /\ stdout' = stdout
        /\ (last_call'.op = "set_age" /\ last_call'.arg <= 0) =>
              /\ user_age' = user_age
              /\ user_name' = user_name
              /\ stdout' = Append(stdout, "Invalid age!")
        /\ (last_call'.op = "set_price" /\ last_call'.arg > 0) =>
              /\ car_price' = last_call'.arg
              /\ stdout' = stdout
        /\ (last_call'.op = "set_price" /\ last_call'.arg <= 0) =>
              /\ car_price' = car_price
              /\ stdout' = Append(stdout, "Invalid price!")
      ]_vars

\* C3 witness: set_age(0) has been refused with the message printed, and the
\* age is still the positive one the user had.
C3_Witness ==
    /\ last_call = [op |-> "set_age", arg |-> 0]
    /\ stdout = <<"Invalid age!">>
    /\ user_age = 2

(***************************************************************************)
(* oop-exercises.ipynb, step 7: Rating.                                    *)
(***************************************************************************)
RatingScale == 5     \* the "/5" of Rating.__str__

RatingValues == 1..RatingScale

\* A faulty variant of Rating.__add__: the sum is capped at the top of the scale.
Rating__add__capped(self, other) ==
    IF self + other > RatingScale THEN RatingScale ELSE self + other

\* Rating.__add__: the rating given to the new Rating object,
\* self.rating + other.rating.
Rating__add__(self, other) == self + other

\* Rating.__str__: f"Rating: {self.rating}/5"
Rating__str__(rating) == <<"Rating: ", rating, "/5">>

\* Rating(rating): a new object.
Rating(r) ==
    /\ Len(ratings) < MaxRatings
    /\ ratings' = Append(ratings, r)
    /\ UNCHANGED <<last_add, libVars, userVars, metaVars, mainVars, iterVars, fileVars, patVars, lessonVars>>

\* rating_i + rating_j: __add__ returns Rating(...), a new object.
Rating_add(i, j) ==
    /\ Len(ratings) < MaxRatings
    /\ ratings' = Append(ratings, Rating__add__(ratings[i], ratings[j]))
    /\ last_add' = [left |-> i, right |-> j, result |-> Len(ratings) + 1]
    /\ UNCHANGED <<libVars, userVars, metaVars, mainVars, iterVars, fileVars, patVars, lessonVars>>

InitRating ==
    /\ ratings = <<>>
    /\ last_add = [left |-> 0, right |-> 0, result |-> 0]
    /\ IdleLib /\ IdleUser /\ IdleMeta /\ IdleMain /\ IdleIter /\ IdleFile /\ IdlePatterns /\ IdleLessons

NextRating ==
    \/ \E r \in RatingValues : Rating(r)
    \/ \E i \in DOMAIN ratings, j \in DOMAIN ratings : Rating_add(i, j)

SpecRating == InitRating /\ [][NextRating]_vars

\* C4: rating1 + rating2 returns a new Rating whose rating is the arithmetic
\* sum of the operands' ratings, not capped at 5 (Rating(4) + Rating(5)
\* prints 'Rating: 9/5'), and leaves the rating of both operands unchanged.
C4_AddIsUncappedSumInNewObject ==
    [][ last_add' # last_add =>
          LET a == last_add' IN
          /\ a.result \notin DOMAIN ratings
          /\ a.result \in DOMAIN ratings'
          /\ ratings'[a.result] = ratings[a.left] + ratings[a.right]
          /\ \A k \in DOMAIN ratings : ratings'[k] = ratings[k]
          /\ (ratings[a.left] = 4 /\ ratings[a.right] = 5) =>
                 Rating__str__(ratings'[a.result]) = <<"Rating: ", 9, "/5">>
      ]_vars

\* C4 witness: Rating(4) + Rating(5) has been evaluated and the result is a
\* third object with rating 9, above the scale.
C4_Witness ==
    /\ ratings = <<4, 5, 9>>
    /\ last_add = [left |-> 1, right |-> 2, result |-> 3]
    /\ Rating__str__(ratings[3]) = <<"Rating: ", 9, "/5">>

(***************************************************************************)
(* oop-exercises.ipynb, step 8: MetaBook; 11_metaclasses-in-python.md:     *)
(* Meta.  A class is [meta, base, dict]: its metaclass, the index of its   *)
(* base class (0 for object) and its own namespace.                        *)
(***************************************************************************)
\* A faulty variant of DictSet: dct.setdefault(key, value).
DictSetDefault(dct, key, value) == dct @@ (key :> value)

\* dct[key] = value
DictSet(dct, key, value) == (key :> value) @@ dct

\* MetaBook.__new__: dct["category"] = "General", then type.__new__.
MetaBook__new__(base, dct) ==
    [meta |-> "MetaBook", base |-> base, dict |-> DictSet(dct, "category", "General")]

\* Meta.__new__: dct['created_by'] = "Metaclass", then type.__new__.
Meta__new__(base, dct) ==
    [meta |-> "Meta", base |-> base, dict |-> DictSet(dct, "created_by", "Metaclass")]

\* The namespace a class body hands to the metaclass: Python's own
\* __module__ entry and the assignments of the body.
ClassBodies ==
    LET module == "__module__" :> "__main__" IN
    { module,
      ("category" :> "Special") @@ module,
      ("category" :> "General") @@ module,
      ("category" :> "Special") @@ ("created_by" :> "Author") @@ module }

\* The metaclasses of the two examples.
Metaclasses == {"MetaBook", "Meta"}

\* Attribute lookup on a class: its own namespace, then its bases'.
RECURSIVE class_getattr(_, _)
class_getattr(c, key) ==
    IF key \in DOMAIN classes[c].dict THEN classes[c].dict[key]
    ELSE IF classes[c].base = 0 THEN None
    ELSE class_getattr(classes[c].base, key)

\* class X(metaclass=meta): body   /   class X(Base, metaclass=meta): body
\* A class with a base is made by the metaclass of the base (naming an
\* unrelated one is a metaclass conflict, a TypeError that makes no class).
create_class(meta, base, body) ==
    /\ Len(classes) < MaxClasses
    /\ base # 0 => classes[base].meta = meta
    /\ classes' = Append(classes,
                         IF meta = "MetaBook" THEN MetaBook__new__(base, body)
                                              ELSE Meta__new__(base, body))
    /\ UNCHANGED <<libVars, userVars, ratingVars, mainVars, iterVars, fileVars, patVars, lessonVars>>

InitMeta ==
    /\ classes = <<>>
    /\ IdleLib /\ IdleUser /\ IdleRating /\ IdleMain /\ IdleIter /\ IdleFile /\ IdlePatterns /\ IdleLessons

NextMeta ==
    \E meta \in Metaclasses, base \in 0..Len(classes), body \in ClassBodies :
        create_class(meta, base, body)

SpecMeta == InitMeta /\ [][NextMeta]_vars

\* C5: every class created with metaclass MetaBook has the class attribute
\* category equal to 'General', including a class whose own body assigns a
\* different value to category.
C5_MetaBookCategoryGeneral ==
    \A c \in DOMAIN classes :
        classes[c].meta = "MetaBook" => class_getattr(c, "category") = "General"

\* C5 witness: a class whose body sets category = "Special" has been created
\* with metaclass MetaBook, as a subclass of another such class, and reads
\* category 'General'.
C5_Witness ==
    /\ Len(classes) >= 2
    /\ classes[2].meta = "MetaBook"
    /\ classes[2].base = 1
    /\ classes[2].dict = ("category" :> "General") @@ ("created_by" :> "Author")
                             @@ ("__module__" :> "__main__")
    /\ class_getattr(2, "category") = "General"

(***************************************************************************)
(* Python str methods used by process_data.  A str is a tuple of           *)
(* characters; the cased characters are the letters below, anything else   *)
(* (the space) is uncased.                                                 *)
(***************************************************************************)
LowerChars == <<"a", "b", "c", "e", "i", "k", "l", "o", "s", "u">>
UpperChars == <<"A", "B", "C", "E", "I", "K", "L", "O", "S", "U">>

IsLower(c) == \E k \in DOMAIN LowerChars : LowerChars[k] = c
IsUpper(c) == \E k \in DOMAIN UpperChars : UpperChars[k] = c
IsCased(c) == IsLower(c) \/ IsUpper(c)

CharUpper(c) ==
    IF IsLower(c) THEN UpperChars[CHOOSE k \in DOMAIN LowerChars : LowerChars[k] = c]
                  ELSE c

CharLower(c) ==
    IF IsUpper(c) THEN LowerChars[CHOOSE k \in DOMAIN UpperChars : UpperChars[k] = c]
                  ELSE c

\* str.upper()
str_upper(str) == [i \in DOMAIN str |-> CharUpper(str[i])]

\* str.capitalize(): the first character upper-cased, the rest lower-cased.
\* A faulty variant of str_title.
str_capitalize(str) ==
    [i \in DOMAIN str |-> IF i = 1 THEN CharUpper(str[i]) ELSE CharLower(str[i])]

\* str.title(): a cased character that follows an uncased one (or starts
\* the string) is upper-cased, every other cased character is lower-cased.
str_title(str) ==
    [i \in DOMAIN str |->
        IF i = 1 \/ ~IsCased(str[i - 1]) THEN CharUpper(str[i])
                                         ELSE CharLower(str[i])]

(***************************************************************************)
(* json.dump and json.load on a list of user records.  The text of the     *)
(* file is a tuple of tokens: punctuation [p], object key [k], string [s]  *)
(* and number [n].                                                         *)
(***************************************************************************)
RECURSIVE Flatten(_)
Flatten(seqs) == IF seqs = <<>> THEN <<>> ELSE Head(seqs) \o Flatten(Tail(seqs))

TokensPerRecord == 8

\* One dict of the list, keys in insertion order.
json_dump_record(person) ==
    << [p |-> "{"],
       [k |-> "name"], [s |-> person.name],
       [k |-> "age"], [n |-> person.age],
       [k |-> "country"], [s |-> person.country],
       [p |-> "}"] >>

\* json.dump(data, file, indent=4)
json_dump(data) ==
    <<[p |-> "["]>>
      \o Flatten([i \in DOMAIN data |-> json_dump_record(data[i])])
      \o <<[p |-> "]"]>>

\* Whether eight tokens are one user object.
IsRecordText(t) ==
    /\ Len(t) = TokensPerRecord
    /\ t[1] = [p |-> "{"]
    /\ t[2] = [k |-> "name"]    /\ DOMAIN t[3] = {"s"}
    /\ t[4] = [k |-> "age"]     /\ DOMAIN t[5] = {"n"}
    /\ t[6] = [k |-> "country"] /\ DOMAIN t[7] = {"s"}
    /\ t[8] = [p |-> "}"]

\* json.load(file): the list of records, or JSONDecodeError when the text
\* is not a JSON document.
json_load(text) ==
    LET body  == SubSeq(text, 2, Len(text) - 1)
        count == Len(body) \div TokensPerRecord
        chunk(i) == SubSeq(body, (i - 1) * TokensPerRecord + 1, i * TokensPerRecord)
        ok == /\ Len(text) >= 2
              /\ text[1] = [p |-> "["]
              /\ text[Len(text)] = [p |-> "]"]
              /\ Len(body) % TokensPerRecord = 0
              /\ \A i \in 1..count : IsRecordText(chunk(i))
    IN  IF ok
          THEN [error |-> None,
                data |-> [i \in 1..count |->
                             [name |-> chunk(i)[3].s, age |-> chunk(i)[5].n,
                              country |-> chunk(i)[7].s]]]
          ELSE [error |-> "JSONDecodeError", data |-> <<>>]

(***************************************************************************)
(* core-concepts-exercises.ipynb, steps 2 to 5: logger, read_json,         *)
(* write_json, process_data.  Each function is [file, result, out]: the    *)
(* file it leaves, the value it returns and the lines it prints.           *)
(***************************************************************************)
Line(text) == [line |-> text]

\* logger's wrapper: the lines printed around a call of func.
logger(name, out) ==
    <<Line("Executing " \o name \o "...")>>
      \o out
      \o <<Line("Execution of " \o name \o " completed."), Line("")>>

\* write_json(file_path, data), decorated with @logger.
write_json(file, data) ==
    [file   |-> [exists |-> TRUE, text |-> json_dump(data)],
     result |-> <<>>,
     out    |-> logger("write_json", <<>>)]

SampleAgeAlice == 25
SampleAgeBob == 30

\* sample_data of read_json.
sample_data ==
    << [name |-> <<"A", "l", "i", "c", "e">>, age |-> SampleAgeAlice,
        country |-> <<"U", "S", "A">>],
       [name |-> <<"B", "o", "b">>, age |-> SampleAgeBob,
        country |-> <<"U", "K">>] >>

\* A faulty variant of read_json: a missing file is reported and an empty
\* list is returned, no sample data is written.
read_json_no_sample(file) ==
    IF ~file.exists \/ json_load(file.text).error # None
      THEN [file   |-> file,
            result |-> <<>>,
            out    |-> logger("read_json", <<Line("Error decoding JSON file.")>>)]
      ELSE [file |-> file, result |-> json_load(file.text).data,
            out |-> logger("read_json", <<>>)]

\* read_json(file_path), decorated with @logger.
read_json(file) ==
    IF ~file.exists
      THEN \* except FileNotFoundError
           LET w == write_json(file, sample_data) IN
           [file   |-> w.file,
            result |-> sample_data,
            out    |-> logger("read_json",
                          <<Line("File not found. Creating a new file with sample data.")>>
                            \o w.out)]
      ELSE LET loaded == json_load(file.text) IN
           IF loaded.error # None
             THEN \* except json.JSONDecodeError
                  [file   |-> file,
                   result |-> <<>>,
                   out    |-> logger("read_json", <<Line("Error decoding JSON file.")>>)]
             ELSE [file |-> file, result |-> loaded.data,
                   out |-> logger("read_json", <<>>)]

\* A faulty variant of process_person: the age is not incremented.
process_person_keep_age(person) ==
    [name |-> str_title(person.name), age |-> person.age,
     country |-> str_upper(person.country)]

\* The dict process_data builds for one person.
process_person(person) ==
    [name |-> str_title(person.name), age |-> person.age + 1,
     country |-> str_upper(person.country)]

\* process_data(data), decorated with @logger.
process_data(data) ==
    [result |-> [i \in DOMAIN data |-> process_person(data[i])],
     out    |-> logger("process_data", <<>>)]

(***************************************************************************)
(* core-concepts-exercises.ipynb, step 6: UserIterator.                    *)
(***************************************************************************)
\* A faulty variant of UserIterator.__next__: the end test is index > len(users) - 2,
\* which stops one user early.
UserIterator__next__short(us, index) ==
    IF index + 1 >= Len(us)
      THEN [raised |-> TRUE, value |-> <<>>, index |-> index]
      ELSE [raised |-> FALSE, value |-> <<us[index + 1]>>, index |-> index + 1]

\* UserIterator.__next__ on self.users = us, self.index = index (counted
\* from 0): StopIteration, or the user returned (as a one-element tuple),
\* and the new self.index.
UserIterator__next__(us, index) ==
    IF index >= Len(us)
      THEN [raised |-> TRUE, value |-> <<>>, index |-> index]
      ELSE [raised |-> FALSE, value |-> <<us[index + 1]>>, index |-> index + 1]

\* for user in user_iterator: the users the loop body sees, until __next__
\* raises StopIteration.
RECURSIVE for_user_in(_, _)
for_user_in(us, index) ==
    LET nxt == UserIterator__next__(us, index) IN
    IF nxt.raised THEN <<>> ELSE nxt.value \o for_user_in(us, nxt.index)

(***************************************************************************)
(* core-concepts-exercises.ipynb, step 8: main.                            *)
(***************************************************************************)
\* main(), run to completion by the notebook cell.
main ==
    LET r  == read_json(users_json)
        pd == process_data(r.result)
        w  == write_json(r.file, pd.result)
        seen == for_user_in(pd.result, 0)
    IN  /\ runs < MaxRuns
        /\ users' = r.result
        /\ processed_users' = pd.result
        /\ users_json' = w.file
        /\ cell_output' =
              r.out \o pd.out \o w.out
                \o <<Line(""), Line("Iterating through users:")>>
                \o [i \in DOMAIN seen |-> [user |-> seen[i]]]
                \o <<Line(""), Line("Reading file using context manager:")>>
                \o <<[text |-> w.file.text]>>
        /\ runs' = runs + 1
        /\ UNCHANGED file_at_start
        /\ UNCHANGED <<libVars, userVars, ratingVars, metaVars, iterVars, fileVars, patVars, lessonVars>>

\* The contents users.json can have before the first run: no file, a list
\* of user records, or text that is not JSON.
InitNames == { <<"b", "o", "B">>, <<"a", "l", " ", "b">> }
InitAges == { 0 - 1, 30 }
InitCountries == { <<"u", "k">>, <<"U", "s">> }
InitRecords == [name : InitNames, age : InitAges, country : InitCountries]

RECURSIVE ListsUpTo(_, _)
ListsUpTo(S, n) ==
    IF n = 0 THEN { <<>> }
    ELSE LET shorter == ListsUpTo(S, n - 1) IN
         shorter \cup { Append(l, x) : l \in shorter, x \in S }

BrokenTexts == { <<>>, <<[p |-> "["], [p |-> "{"]>> }

InitFiles ==
    { [exists |-> FALSE, text |-> <<>>] }
      \cup { [exists |-> TRUE, text |-> json_dump(d)] : d \in ListsUpTo(InitRecords, MaxUsers) }
      \cup { [exists |-> TRUE, text |-> t] : t \in BrokenTexts }

InitMain ==
    /\ users_json \in InitFiles
    /\ file_at_start = users_json
    /\ runs = 0
    /\ users = <<>>
    /\ processed_users = <<>>
    /\ cell_output = <<>>
    /\ IdleLib /\ IdleUser /\ IdleRating /\ IdleMeta /\ IdleIter /\ IdleFile /\ IdlePatterns /\ IdleLessons

NextMain == main

SpecMain == InitMain /\ [][NextMain]_vars

\* The user records a cell output shows, in the order printed.
PrintedUsersOf(out) ==
    LET lines == SelectSeq(out, LAMBDA l : DOMAIN l = {"user"}) IN
    [i \in DOMAIN lines |-> lines[i].user]

\* Position of the first line of out that equals l (0 when there is none).
FirstIndexOf(out, l) ==
    IF \E i \in DOMAIN out : out[i] = l
      THEN CHOOSE i \in DOMAIN out : out[i] = l /\ \A j \in 1..(i - 1) : out[j] # l
      ELSE 0

\* What Python's str.title() and str.upper() give for the names and
\* countries that occur, written out.
TitleCased(name) ==
    CASE name = <<"b", "o", "B">>      -> <<"B", "o", "b">>
      [] name = <<"B", "o", "b">>      -> <<"B", "o", "b">>
      [] name = <<"a", "l", " ", "b">> -> <<"A", "l", " ", "B">>
      [] name = <<"A", "l", " ", "B">> -> <<"A", "l", " ", "B">>
      [] name = <<"A", "l", "i", "c", "e">> -> <<"A", "l", "i", "c", "e">>

UpperCased(country) ==
    CASE country = <<"u", "k">> -> <<"U", "K">>
      [] country = <<"U", "K">> -> <<"U", "K">>
      [] country = <<"U", "s">> -> <<"U", "S">>
      [] country = <<"U", "S">> -> <<"U", "S">>
      [] country = <<"U", "S", "A">> -> <<"U", "S", "A">>

\* C6: for any list of user records that read_json returns, main() writes
\* back to users.json and then prints, in the same order, exactly one record
\* per input record with the name title-cased, the age increased by exactly
\* 1 and the country upper-cased; no record is added, dropped or reordered.
C6_MainProcessesEveryRecordInOrder ==
    runs > 0 =>
      /\ Len(processed_users) = Len(users)
      /\ \A i \in DOMAIN users :
            processed_users[i] = [name    |-> TitleCased(users[i].name),
                                  age     |-> users[i].age + 1,
                                  country |-> UpperCased(users[i].country)]
      /\ users_json.exists
      /\ json_load(users_json.text) = [error |-> None, data |-> processed_users]
      /\ PrintedUsersOf(cell_output) = processed_users
      /\ FirstIndexOf(cell_output, Line("Executing write_json...")) > 0
      /\ \A i \in DOMAIN cell_output :
            DOMAIN cell_output[i] = {"user"} =>
                i > FirstIndexOf(cell_output, Line("Iterating through users:"))
      /\ \A i \in DOMAIN cell_output :
            cell_output[i] = Line("Executing write_json...") =>
                i < FirstIndexOf(cell_output, Line("Iterating through users:"))

\* C6 witness: one run over a file of two records ('boB', 'al b') has
\* written and printed 'Bob' and 'Al B', ages up by one, countries in
\* capitals, in the order of the file.
C6_Witness ==
    /\ runs = 1
    /\ users = << [name |-> <<"b", "o", "B">>, age |-> 30, country |-> <<"u", "k">>],
                  [name |-> <<"a", "l", " ", "b">>, age |-> 0 - 1, country |-> <<"U", "s">>] >>
    /\ PrintedUsersOf(cell_output) =
          << [name |-> <<"B", "o", "b">>, age |-> 31, country |-> <<"U", "K">>],
             [name |-> <<"A", "l", " ", "B">>, age |-> 0, country |-> <<"U", "S">>] >>

\* C7 as stated: running main() again after a completed run prints the same
\* user records, and leaves users.json with the same content, as the
\* previous run did.
C7_RerunChangesNothing ==
    [][ (runs >= 1 /\ runs' = runs + 1) =>
           /\ PrintedUsersOf(cell_output') = PrintedUsersOf(cell_output)
           /\ users_json' = users_json
      ]_vars

\* C7 as amended: users.json persists between runs, so a run after a
\* completed run prints the same number of records in the same order, every
\* age one greater than the previous run printed and (names and countries
\* being ASCII letters and spaces) the same names and countries, and leaves
\* those records in users.json.
C7_RerunAgesEveryRecord ==
    [][ (runs >= 1 /\ runs' = runs + 1) =>
           LET before == PrintedUsersOf(cell_output)
               after  == PrintedUsersOf(cell_output')
           IN  /\ Len(after) = Len(before)
               /\ \A i \in DOMAIN before :
                      /\ after[i].name = before[i].name
                      /\ after[i].country = before[i].country
                      /\ after[i].age = before[i].age + 1
               /\ json_load(users_json.text).data = before
               /\ json_load(users_json'.text).data = after
               /\ before # <<>> => users_json' # users_json
      ]_vars

\* C7 witness: a second run has completed after a first one that found no
\* file; it printed Alice and Bob with ages 27 and 32, the first run's
\* being 26 and 31.
C7_Witness ==
    /\ runs = 2
    /\ Len(PrintedUsersOf(cell_output)) = 2
    /\ PrintedUsersOf(cell_output)[1].age = SampleAgeAlice + 2
    /\ PrintedUsersOf(cell_output)[2].age = SampleAgeBob + 2
    /\ users[1].age = SampleAgeAlice + 1

(***************************************************************************)
(* core-concepts-exercises.ipynb, step 6: a UserIterator driven one        *)
(* __next__ call at a time.                                                *)
(***************************************************************************)
\* next(user_iterator)
next_call ==
    LET nxt == UserIterator__next__(it_users, it_index) IN
    /\ Len(it_results) < MaxNextCalls
    /\ it_index' = nxt.index
    /\ it_results' = Append(it_results, [raised |-> nxt.raised, value |-> nxt.value])
    /\ UNCHANGED <<it_users, libVars, userVars, ratingVars, metaVars, mainVars, fileVars, patVars, lessonVars>>

\* UserIterator(users): any list of the users below, index 0.
IterUsers ==
    { sample_data[1], sample_data[2],
      [name |-> <<"B", "o", "b">>, age |-> SampleAgeBob + 1, country |-> <<"U", "K">>] }

InitIter ==
    /\ it_users \in ListsUpTo(IterUsers, MaxIterUsers)
    /\ it_index = 0
    /\ it_results = <<>>
    /\ IdleLib /\ IdleUser /\ IdleRating /\ IdleMeta /\ IdleMain /\ IdleFile /\ IdlePatterns /\ IdleLessons

NextIter == next_call

SpecIter == InitIter /\ [][NextIter]_vars

\* C8: iterating a UserIterator built over a list of n users returns the
\* users at indices 0..n-1, each exactly once and in list order, and the
\* (n+1)-th __next__ call raises StopIteration; for an empty list the first
\* __next__ call raises StopIteration.
C8_IteratesListOnceInOrder ==
    \A k \in DOMAIN it_results :
        IF k <= Len(it_users)
          THEN it_results[k] = [raised |-> FALSE, value |-> <<it_users[k]>>]
          ELSE it_results[k] = [raised |-> TRUE, value |-> <<>>]

\* C8 witness: over a list of two users, three __next__ calls have been
\* made: the two users in list order, then StopIteration.
C8_Witness ==
    /\ it_users = <<sample_data[2], sample_data[1]>>
    /\ it_results = << [raised |-> FALSE, value |-> <<sample_data[2]>>],
                       [raised |-> FALSE, value |-> <<sample_data[1]>>],
                       [raised |-> TRUE, value |-> <<>>] >>

(***************************************************************************)
(* core-concepts-exercises.ipynb, step 7: FileHandler, and the with        *)
(* statement that drives it:                                               *)
(*     with FileHandler(file_path, mode) as file: body                     *)
(***************************************************************************)
Modes == {"r", "w"}

BodyExceptions == {"ValueError", "UnsupportedOperation"}

\* open(path, mode): FileNotFoundError for reading a file that is not
\* there; otherwise a new open file object, and mode "w" creates or
\* truncates the file.
open(files, path, mode) ==
    IF mode = "r" /\ ~files[path].exists
      THEN [error |-> "FileNotFoundError", handle |-> <<>>, files |-> files]
      ELSE [error |-> None,
            handle |-> <<[path |-> path, mode |-> mode, closed |-> FALSE]>>,
            files |-> IF mode = "w"
                        THEN [files EXCEPT ![path] = [exists |-> TRUE, data |-> <<>>]]
                        ELSE files]

\* A faulty variant of FileHandler.__exit__: the file is closed only when the body
\* raised nothing.
FileHandler__exit__on_success(file, exc_type) ==
    [file |-> [file EXCEPT !.closed = (exc_type = None)], result |-> None]

\* FileHandler.__exit__(exc_type, exc_value, traceback): self.file.close(),
\* and the method returns None.
FileHandler__exit__(file, exc_type) ==
    [file |-> [file EXCEPT !.closed = TRUE], result |-> None]

\* Whether the value __exit__ returned makes the with statement swallow the
\* body's exception.
Truthy(value) == value = "True"

\* FileHandler(file_path, mode): a new context manager, once the previous
\* with statement is over.
FileHandler(path, mode) ==
    /\ with_pc = "after"
    /\ Len(handles) < MaxOpens
    /\ fh_path' = path
    /\ fh_mode' = mode
    /\ fh_file' = 0
    /\ with_pc' = "before"
    /\ body_exc' = None
    /\ propagated' = None
    /\ UNCHANGED <<fs, handles, libVars, userVars, ratingVars, metaVars, mainVars, iterVars, patVars, lessonVars>>

\* The with statement calls __enter__: self.file = open(self.file_path,
\* self.mode).  An exception of open leaves the statement at once.
with_enter ==
    LET o == open(fs, fh_path, fh_mode) IN
    /\ with_pc = "before"
    /\ Len(handles) < MaxOpens
    /\ IF o.error # None
         THEN /\ with_pc' = "after"
              /\ propagated' = o.error
              /\ UNCHANGED <<fs, handles, fh_file>>
         ELSE /\ handles' = handles \o o.handle
              /\ fh_file' = Len(handles) + 1
              /\ fs' = o.files
              /\ with_pc' = "body"
              /\ UNCHANGED propagated
    /\ UNCHANGED <<fh_path, fh_mode, body_exc,
                   libVars, userVars, ratingVars, metaVars, mainVars, iterVars, patVars, lessonVars>>

\* The body writes to the file it was given (mode "w").
body_write(chunk) ==
    /\ with_pc = "body"
    /\ fh_mode = "w"
    /\ Len(fs[fh_path].data) < MaxWrites
    /\ fs' = [fs EXCEPT ![fh_path].data = Append(@, chunk)]
    /\ UNCHANGED <<handles, fh_path, fh_mode, fh_file, with_pc, body_exc, propagated,
                   libVars, userVars, ratingVars, metaVars, mainVars, iterVars, patVars, lessonVars>>

\* The body ends, normally (exc = None) or by raising exc: the with
\* statement calls __exit__ and re-raises exc unless __exit__ returned a
\* true value.
with_exit(exc) ==
    LET x == FileHandler__exit__(handles[fh_file], exc) IN
    /\ with_pc = "body"
    /\ handles' = [handles EXCEPT ![fh_file] = x.file]
    /\ body_exc' = exc
    /\ propagated' = IF exc # None /\ ~Truthy(x.result) THEN exc ELSE None
    /\ with_pc' = "after"
    /\ UNCHANGED <<fs, fh_path, fh_mode, fh_file,
                   libVars, userVars, ratingVars, metaVars, mainVars, iterVars, patVars, lessonVars>>

FileStates ==
    { [exists |-> FALSE, data |-> <<>>],
      [exists |-> TRUE, data |-> <<>>],
      [exists |-> TRUE, data |-> <<"Hello, world!">>] }

InitFile ==
    /\ fs \in [Paths -> FileStates]
    /\ handles = <<>>
    /\ fh_path \in Paths
    /\ fh_mode \in Modes
    /\ fh_file = 0
    /\ with_pc = "before"
    /\ body_exc = None
    /\ propagated = None
    /\ IdleLib /\ IdleUser /\ IdleRating /\ IdleMeta /\ IdleMain /\ IdleIter /\ IdlePatterns /\ IdleLessons

NextFile ==
    \/ \E path \in Paths, mode \in Modes : FileHandler(path, mode)
    \/ with_enter
    \/ body_write("Hello, world!")
    \/ \E exc \in {None} \cup BodyExceptions : with_exit(exc)

SpecFile == InitFile /\ [][NextFile]_vars

\* C9: the file opened by FileHandler.__enter__ is closed by the time the
\* with block has been left, both when the body completes normally and when
\* the body raises an exception, and __exit__ does not suppress the body's
\* exception.
C9_FileClosedOnLeaving ==
    /\ with_pc = "body" => (fh_file \in DOMAIN handles /\ ~handles[fh_file].closed)
    /\ with_pc = "after" =>
          /\ \A h \in DOMAIN handles : handles[h].closed
          /\ fh_file # 0 => propagated = body_exc

\* C9 witness: the body of a with statement raised ValueError; the file that
\* __enter__ opened is closed and the ValueError has left the statement.
C9_Witness ==
    /\ with_pc = "after"
    /\ fh_file = 1
    /\ handles[1].closed
    /\ body_exc = "ValueError"
    /\ propagated = "ValueError"

(***************************************************************************)
(* design-patterns.md, 1: Singleton.  Objects are numbered in the order    *)
(* super().__new__ makes them; 0 stands for None.                          *)
(***************************************************************************)
\* A faulty variant of Singleton.__new__: the test of cls._instance is left out.
Singleton__new__always(instance, made) ==
    [instance |-> made + 1, made |-> made + 1, result |-> made + 1]

\* Singleton.__new__(cls) with cls._instance = instance, when made objects
\* exist: the new cls._instance, the new number of objects and the object
\* returned.
Singleton__new__(instance, made) ==
    IF instance = 0
      THEN [instance |-> made + 1, made |-> made + 1, result |-> made + 1]
      ELSE [instance |-> instance, made |-> made, result |-> instance]

\* Singleton()
Singleton ==
    LET r == Singleton__new__(Singleton_instance, created) IN
    /\ Len(returned) < MaxCalls
    /\ Singleton_instance' = r.instance
    /\ created' = r.made
    /\ returned' = Append(returned, r.result)
    /\ UNCHANGED <<observers, attached, updates,
                   libVars, userVars, ratingVars, metaVars, mainVars, iterVars, fileVars, lessonVars>>

(***************************************************************************)
(* design-patterns.md, 3: Subject and Observer.                            *)
(***************************************************************************)
ObserverObjects == {"observer1", "observer2"}

Messages == {"New event occurred!", "Another event"}

\* A faulty variant of Subject.attach: an observer already attached is not
\* attached again.
Subject_attach_once(obs, observer) ==
    IF observer \in Range(obs) THEN obs ELSE Append(obs, observer)

\* self._observers.append(observer)
Subject_attach(obs, observer) == Append(obs, observer)

\* Subject.attach(observer)
attach(observer) ==
    /\ Len(observers) < MaxObservers
    /\ observers' = Subject_attach(observers, observer)
    /\ attached' = Append(attached, observer)
    /\ UNCHANGED <<updates, Singleton_instance, created, returned,
                   libVars, userVars, ratingVars, metaVars, mainVars, iterVars, fileVars, lessonVars>>

\* Subject.notify(message): observer.update(message) for every observer in
\* self._observers, in list order.
notify(message) ==
    /\ Len(updates) + Len(observers) <= MaxNotifies * MaxObservers
    /\ updates' = updates \o [i \in DOMAIN observers |->
                                 [observer |-> observers[i], message |-> message]]
    /\ UNCHANGED <<observers, attached, Singleton_instance, created, returned,
                   libVars, userVars, ratingVars, metaVars, mainVars, iterVars, fileVars, lessonVars>>

InitPatterns ==
    /\ Singleton_instance = 0
    /\ created = 0
    /\ returned = <<>>
    /\ observers = <<>>
    /\ attached = <<>>
    /\ updates = <<>>
    /\ IdleLib /\ IdleUser /\ IdleRating /\ IdleMeta /\ IdleMain /\ IdleIter /\ IdleFile /\ IdleLessons

NextPatterns ==
    \/ Singleton
    \/ \E o \in ObserverObjects : attach(o)
    \/ \E m \in Messages : notify(m)

SpecPatterns == InitPatterns /\ [][NextPatterns]_vars

\* C10: in a single thread every call Singleton() returns the same object:
\* after any sequence of Singleton() calls at most one instance has been
\* created, and Singleton._instance, once set, never changes.
C10_OneInstanceForEver ==
    /\ [](/\ created <= 1
          /\ \A i \in DOMAIN returned : \A j \in DOMAIN returned : returned[i] = returned[j]
          /\ \A i \in DOMAIN returned : returned[i] = Singleton_instance /\ returned[i] # 0
          /\ (returned # <<>>) => created = 1)
    /\ [][Singleton_instance # 0 => Singleton_instance' = Singleton_instance]_vars

\* C10 witness: Singleton() has been called three times; one object exists
\* and all three calls returned it.
C10_Witness ==
    /\ returned = <<1, 1, 1>>
    /\ created = 1
    /\ Singleton_instance = 1

\* C11: Subject.notify(message) calls update(message) on every observer
\* attached so far, once per attach call, in the order in which the attach
\* calls were made, and on no other object.
C11_NotifyUpdatesAttachedInOrder ==
    [][ updates' # updates =>
          \E m \in Messages :
              updates' = updates \o [i \in DOMAIN attached |->
                                        [observer |-> attached[i], message |-> m]]
      ]_vars

\* C11 witness: observer2 was attached, then observer1, then observer2 a
\* second time; one notify has called update on the three, in that order.
C11_Witness ==
    /\ attached = <<"observer2", "observer1", "observer2">>
    /\ updates = << [observer |-> "observer2", message |-> "New event occurred!"],
                    [observer |-> "observer1", message |-> "New event occurred!"],
                    [observer |-> "observer2", message |-> "New event occurred!"] >>

(***************************************************************************)
(* exception-handling.md, section 6: BankAccount with the custom exception *)
(* InsufficientFundsError.                                                 *)
(***************************************************************************)
OpeningBalances == (0 - 1) .. MaxBalance
Amounts == (0 - MaxAmount) .. MaxAmount

\* A faulty variant of BankAccount.withdraw: the whole balance cannot be
\* withdrawn.
BankAccount_withdraw_strict(self_balance, amount) ==
    IF amount >= self_balance
    THEN [balance |-> self_balance, raised |-> "InsufficientFundsError"]
    ELSE [balance |-> self_balance - amount, raised |-> None]

\* BankAccount.withdraw(amount): the balance it leaves and the exception it raises
BankAccount_withdraw(self_balance, amount) ==
    IF amount > self_balance
    THEN [balance |-> self_balance, raised |-> "InsufficientFundsError"]
    ELSE [balance |-> self_balance - amount, raised |-> None]

\* account.withdraw(amount)
withdraw(amount) ==
    /\ withdraw_calls < MaxWithdraws
    /\ LET r == BankAccount_withdraw(balance, amount) IN
        /\ balance' = r.balance
        /\ last_withdraw' = [amount |-> amount, before |-> balance, raised |-> r.raised]
    /\ withdraw_calls' = withdraw_calls + 1
    /\ UNCHANGED <<opening_balance, exceptBank>>

\* account = BankAccount(balance)
InitBank ==
    /\ balance \in OpeningBalances
    /\ opening_balance = balance
    /\ withdraw_calls = 0
    /\ last_withdraw = [amount |-> 0, before |-> 0, raised |-> None]
    /\ IdleExceptBank

NextBank == \E amount \in Amounts : withdraw(amount)

SpecBank == InitBank /\ [][NextBank]_vars

\* C12: withdraw(amount) with amount > balance raises InsufficientFundsError
\* and leaves the balance unchanged; with amount <= balance it raises nothing
\* and reduces the balance by exactly amount.
C12_WithdrawRaisesOrDeducts ==
    [][ withdraw_calls' # withdraw_calls =>
          LET amount == last_withdraw'.amount IN
              /\ last_withdraw'.before = balance
              /\ amount > balance =>
                    /\ last_withdraw'.raised = "InsufficientFundsError"
                    /\ balance' = balance
              /\ amount <= balance =>
                    /\ last_withdraw'.raised = None
                    /\ balance' = balance - amount
      ]_vars

\* C12 witness: withdraw(3) on a balance of 2 has raised and left the balance
\* at 2, after an earlier withdraw(1) was deducted from the opening balance 3.
C12_Witness ==
    /\ opening_balance = 3
    /\ withdraw_calls = 2
    /\ last_withdraw = [amount |-> 3, before |-> 2, raised |-> "InsufficientFundsError"]
    /\ balance = 2

(***************************************************************************)
(* context-managers.md, use case 4: change_directory, a generator turned   *)
(* into a context manager by @contextmanager.                              *)
(***************************************************************************)
\* the directories that exist, and one path that does not
Dirs == {"/home/user", "/tmp", "/var", "/etc"}
CdPaths == Dirs \cup {"/missing"}

\* with change_directory(path): the generator runs up to its yield.
\* os.chdir raises FileNotFoundError for a path that does not exist, and then
\* the body is not entered.
cd_enter(path) ==
    /\ cd_pc \in {"before", "after"}
    /\ cd_blocks < MaxBlocks
    /\ cd_blocks' = cd_blocks + 1
    /\ original_path' = cwd
    /\ cd_exc' = None
    /\ IF path \in Dirs
       THEN /\ cwd' = path
            /\ cd_entry' = cwd
            /\ cd_pc' = "body"
            /\ cd_propagated' = None
       ELSE /\ cwd' = cwd
            /\ cd_entry' = None
            /\ cd_pc' = "after"
            /\ cd_propagated' = "FileNotFoundError"
    /\ UNCHANGED exceptChdir

\* the body of the with statement calls os.chdir(path) itself
cd_body_chdir(path) ==
    /\ cd_pc = "body"
    /\ path \in Dirs
    /\ path # cwd
    /\ cwd' = path
    /\ UNCHANGED <<original_path, cd_pc, cd_entry, cd_exc, cd_propagated, cd_blocks, exceptChdir>>

\* The body ends, normally (exc = None) or by raising exc, and the context
\* manager's __exit__ resumes the generator: next(gen) after a normal end runs
\* os.chdir(original_path); gen.throw(exc) raises exc at the yield, which
\* nothing in the generator catches, so the generator ends there and exc
\* leaves the with statement.
cd_exit(exc) ==
    /\ cd_pc = "body"
    /\ cd_exc' = exc
    /\ IF exc = None
       THEN /\ cwd' = original_path
            /\ cd_propagated' = None
       ELSE /\ cwd' = cwd
            /\ cd_propagated' = exc
    /\ cd_pc' = "after"
    /\ UNCHANGED <<original_path, cd_entry, cd_blocks, exceptChdir>>

InitChdir ==
    /\ cwd \in Dirs
    /\ original_path = None
    /\ cd_pc = "before"
    /\ cd_entry = None
    /\ cd_exc = None
    /\ cd_propagated = None
    /\ cd_blocks = 0
    /\ IdleExceptChdir

NextChdir ==
    \/ \E path \in CdPaths : cd_enter(path)
    \/ \E path \in Dirs : cd_body_chdir(path)
    \/ \E exc \in BodyExceptions \cup {None} : cd_exit(exc)

SpecChdir == InitChdir /\ [][NextChdir]_vars

\* C13: whenever a with change_directory(path) block has been left, by normal
\* completion or by an exception raised in its body, the current working
\* directory is the one that was in effect before the block was entered.
C13_CwdRestoredOnLeaving ==
    (cd_pc = "after" /\ cd_entry # None) => cwd = cd_entry

(***************************************************************************)
(* decorators-in-python.md, use case 2: the access control decorator       *)
(* require_permission and the function delete_user it decorates.  A user   *)
(* is a dict; a dict is a function from its keys.                          *)
(***************************************************************************)
Permissions == {"admin", "editor"}
Usernames == {"test_user", "guest"}

PermissionLists ==
    UNION { [1..n -> Permissions] : n \in 0..MaxPermissions }

\* the users: dicts with a "permissions" list, and one dict without the key
PermUsers ==
    { [permissions |-> ps] : ps \in PermissionLists } \cup { [name |-> "bob"] }

\* d.get(key, default)
dict_get(d, key, default) == IF key \in DOMAIN d THEN d[key] ELSE default

\* the body of delete_user(user, username): the line it prints and the value
\* it returns
delete_user(user, username) ==
    [printed |-> [line |-> <<"User ", username, " deleted">>], result |-> None]

\* A faulty variant of the wrapper's test: every user is let through.
wrapper_denies_nobody(p, user) == FALSE

\* wrapper: permission not in user.get("permissions", [])
wrapper_denies(p, user) ==
    p \notin Range(dict_get(user, "permissions", <<>>))

\* delete_user(user, username), decorated: wrapper(user, username)
call_delete_user(user, username) ==
    /\ perm_calls < MaxPermCalls
    /\ perm_calls' = perm_calls + 1
    /\ IF wrapper_denies(permission, user)
       THEN /\ last_perm' = [user |-> user, username |-> username,
                             raised |-> "PermissionError", result |-> None]
            /\ UNCHANGED <<body_runs, perm_stdout>>
       ELSE LET r == delete_user(user, username) IN
            /\ body_runs' = Append(body_runs, [user |-> user, username |-> username])
            /\ perm_stdout' = Append(perm_stdout, r.printed)
            /\ last_perm' = [user |-> user, username |-> username,
                             raised |-> None, result |-> r.result]
    /\ UNCHANGED <<permission, exceptPerm>>

\* @require_permission(permission) def delete_user(user, username): ...
InitPerm ==
    /\ permission \in Permissions
    /\ body_runs = <<>>
    /\ perm_stdout = <<>>
    /\ perm_calls = 0
    /\ last_perm = [user |-> <<>>, username |-> None, raised |-> None, result |-> None]
    /\ IdleExceptPerm

NextPerm == \E user \in PermUsers, username \in Usernames : call_delete_user(user, username)

SpecPerm == InitPerm /\ [][NextPerm]_vars

\* the user has permission p: the dict has a "permissions" key whose list
\* contains p
HasPermission(user, p) ==
    /\ "permissions" \in DOMAIN user
    /\ \E i \in DOMAIN user["permissions"] : user["permissions"][i] = p

\* C14: a function decorated with @require_permission(p) never runs its body
\* for a user that lacks p or has no "permissions" key: the call raises
\* PermissionError; for any other user the body runs exactly once, with the
\* original arguments, and its result is returned.
C14_BodyRunsOnlyWithPermission ==
    [][ perm_calls' # perm_calls =>
          LET call == last_perm' IN
              IF HasPermission(call.user, permission)
              THEN /\ call.raised = None
                   /\ body_runs' = Append(body_runs, [user |-> call.user,
                                                      username |-> call.username])
                   /\ perm_stdout' = Append(perm_stdout,
                          [line |-> <<"User ", call.username, " deleted">>])
                   /\ call.result = delete_user(call.user, call.username).result
              ELSE /\ call.raised = "PermissionError"
                   /\ body_runs' = body_runs
                   /\ perm_stdout' = perm_stdout
      ]_vars

\* C14 witness: under @require_permission("admin"), the body has run once,
\* for admin_user and "test_user", and then a user without the key was
\* refused.
C14_Witness ==
    /\ permission = "admin"
    /\ perm_calls = 2
    /\ last_perm.raised = "PermissionError"
    /\ "permissions" \notin DOMAIN last_perm.user
    /\ body_runs = << [user |-> [permissions |-> <<"admin">>], username |-> "test_user"] >>
    /\ perm_stdout = << [line |-> <<"User ", "test_user", " deleted">>] >>

(***************************************************************************)
(* 11_metaclasses-in-python.md, "Enforcing Method Naming": MethodEnforcer. *)
(* A class body is a dict from attribute names to the kind of object the   *)
(* body binds to the name; a name is a tuple of characters.                *)
(***************************************************************************)
AttrNames ==
    { <<"c", "u", "s", "t", "o", "m", "_", "m">>,      \* custom_m
      <<"c", "u", "s", "t", "o", "m">>,                \* custom
      <<"m">>,                                         \* m
      <<"_", "_", "i", "n", "i", "t", "_", "_">> }     \* __init__

\* def f(self), @classmethod def f(cls), @staticmethod def f(), f = 1
AttrKinds == {"function", "classmethod", "staticmethod", "value"}

EnforcedBodies ==
    UNION { [ns -> AttrKinds] : ns \in { n \in SUBSET AttrNames : Cardinality(n) <= MaxBodyAttrs } }

\* s.startswith(prefix)
str_startswith(s, prefix) ==
    /\ Len(s) >= Len(prefix)
    /\ SubSeq(s, 1, Len(prefix)) = prefix

\* callable(attr_value): a function has __call__, a classmethod object has
\* none, a staticmethod object has one from Python 3.10 on, an int has none
callable(kind) ==
    CASE kind = "function" -> TRUE
      [] kind = "classmethod" -> FALSE
      [] kind = "staticmethod" -> staticmethod_callable
      [] OTHER -> FALSE

\* MethodEnforcer.__new__(cls, name, bases, dct): TRUE when it raises TypeError
MethodEnforcer__new__raises(dct) ==
    \E attr_name \in DOMAIN dct :
        /\ callable(dct[attr_name])
        /\ ~ str_startswith(attr_name, <<"c", "u", "s", "t", "o", "m", "_">>)

\* class X(metaclass=MethodEnforcer): <body dct>
enforcer_class(dct) ==
    /\ enforcer_calls < MaxEnforced
    /\ enforcer_calls' = enforcer_calls + 1
    /\ IF MethodEnforcer__new__raises(dct)
       THEN /\ last_enforcer' = [dct |-> dct, raised |-> "TypeError"]
            /\ enforced' = enforced
       ELSE /\ last_enforcer' = [dct |-> dct, raised |-> None]
            /\ enforced' = Append(enforced, dct)
    /\ UNCHANGED <<staticmethod_callable, exceptEnforcer>>

InitEnforcer ==
    /\ staticmethod_callable \in BOOLEAN
    /\ enforced = <<>>
    /\ enforcer_calls = 0
    /\ last_enforcer = [dct |-> <<>>, raised |-> None]
    /\ IdleExceptEnforcer

NextEnforcer == \E dct \in EnforcedBodies : enforcer_class(dct)

SpecEnforcer == InitEnforcer /\ [][NextEnforcer]_vars

\* the methods of a class: the functions, class methods and static methods
\* defined in its body
IsMethod(kind) == kind \in {"function", "classmethod", "staticmethod"}

\* C15: every class that is successfully created with metaclass
\* MethodEnforcer has only methods whose names start with 'custom_'.
C15_CreatedClassesHaveOnlyCustomMethods ==
    \A i \in DOMAIN enforced :
        \A attr_name \in DOMAIN enforced[i] :
            IsMethod(enforced[i][attr_name]) =>
                str_startswith(attr_name, <<"c", "u", "s", "t", "o", "m", "_">>)

(***************************************************************************)
(* part_003, "Refactoring with OOP": the Employee classes before and after *)
(* replacing conditionals with polymorphism, the Car classes before and    *)
(* after replacing inheritance with composition.  A returned value is a    *)
(* one-element tuple, None is the empty tuple; a str built with + is the   *)
(* tuple of its pieces.                                                    *)
(***************************************************************************)
EmployeeNames == {"Alice", "Bob"}
Roles == {"Manager", "Developer", "Intern"}

\* before: Employee(name, role).get_salary()
Employee_get_salary_before(role) ==
    IF role = "Manager" THEN <<80000>>
    ELSE IF role = "Developer" THEN <<60000>>
    ELSE <<40000>>

\* after: the class whose constructor makes the object for a role; the
\* refactored code has a subclass for "Manager" and for "Developer" only
RefactoredClass(role) ==
    IF role \in {"Manager", "Developer"} THEN role ELSE "Employee"

\* after: get_salary() as defined by the class; the body of
\* Employee.get_salary is pass, which returns None
get_salary_after(cls) ==
    CASE cls = "Manager" -> <<80000>>
      [] cls = "Developer" -> <<60000>>
      [] OTHER -> <<>>

\* Engine.start(), the same in both versions
Engine_start == <<"Engine started">>

\* before: class Car(Engine): drive()
Car_drive_before == <<"Car is moving">>

\* after: Car(engine).drive(): self.engine.start() + " and Car is moving"
Car_drive_after == Engine_start \o <<" and Car is moving">>

\* before: for emp in employees: print(emp.name, emp.get_salary())
salary_loop_before ==
    /\ "salary_before" \notin refactor_ran
    /\ salaries_before' = [i \in DOMAIN employees |->
            [name |-> employees[i].name,
             salary |-> Employee_get_salary_before(employees[i].role)]]
    /\ refactor_ran' = refactor_ran \cup {"salary_before"}
    /\ UNCHANGED <<employees, salaries_after, drive_before, drive_after, exceptRefactor>>

\* after: for emp in employees: print(emp.name, emp.get_salary())
salary_loop_after ==
    /\ "salary_after" \notin refactor_ran
    /\ salaries_after' = [i \in DOMAIN employees |->
            [name |-> employees[i].name,
             salary |-> get_salary_after(RefactoredClass(employees[i].role))]]
    /\ refactor_ran' = refactor_ran \cup {"salary_after"}
    /\ UNCHANGED <<employees, salaries_before, drive_before, drive_after, exceptRefactor>>

\* before: Car().drive()
drive_call_before ==
    /\ "drive_before" \notin refactor_ran
    /\ drive_before' = Car_drive_before
    /\ refactor_ran' = refactor_ran \cup {"drive_before"}
    /\ UNCHANGED <<employees, salaries_before, salaries_after, drive_after, exceptRefactor>>

\* after: Car(Engine()).drive()
drive_call_after ==
    /\ "drive_after" \notin refactor_ran
    /\ drive_after' = Car_drive_after
    /\ refactor_ran' = refactor_ran \cup {"drive_after"}
    /\ UNCHANGED <<employees, salaries_before, salaries_after, drive_before, exceptRefactor>>

InitRefactor ==
    /\ employees \in UNION { [1..n -> [name : EmployeeNames, role : Roles]] : n \in 0..MaxStaff }
    /\ salaries_before = <<>>
    /\ salaries_after = <<>>
    /\ drive_before = <<>>
    /\ drive_after = <<>>
    /\ refactor_ran = {}
    /\ IdleExceptRefactor

NextRefactor ==
    \/ salary_loop_before
    \/ salary_loop_after
    \/ drive_call_before
    \/ drive_call_after

SpecRefactor == InitRefactor /\ [][NextRefactor]_vars

\* what the lesson's first version pays a role
ExpectedSalary(role) ==
    IF role = "Manager" THEN 80000 ELSE IF role = "Developer" THEN 60000 ELSE 40000

\* C16: for every role, get_salary() on the refactored object for that role
\* returns the same value as the original Employee(name, role).get_salary():
\* 80000 for a manager, 60000 for a developer, 40000 for any other employee.
C16_RefactoredSalaryUnchanged ==
    {"salary_before", "salary_after"} \subseteq refactor_ran =>
        \A i \in DOMAIN employees :
            /\ salaries_after[i] = salaries_before[i]
            /\ salaries_after[i].salary = <<ExpectedSalary(employees[i].role)>>

\* C17: Car.drive() returns the same value in the inheritance-based version
\* and in the composition-based version.
C17_RefactoredDriveUnchanged ==
    {"drive_before", "drive_after"} \subseteq refactor_ran => drive_after = drive_before

(***************************************************************************)
(* Manual.md, "Decoradores Anidados": two decorators stacked on            *)
(* decir_hola.  A function object is the tuple of the wrappers around the  *)
(* original function, from the innermost one out: the original decir_hola  *)
(* is <<>>, and the wrapper a decorator returns for func is func with the  *)
(* decorator's name appended.                                              *)
(***************************************************************************)
Decorators == {"decorador_uno", "decorador_dos"}

WrittenStacks == UNION { [1..n -> Decorators] : n \in 0..MaxDecorators }

\* decorador_uno(func): return wrapper
decorador_uno(func) == Append(func, "decorador_uno")

\* decorador_dos(func): return wrapper
decorador_dos(func) == Append(func, "decorador_dos")

ApplyDecorator(d, func) ==
    IF d = "decorador_uno" THEN decorador_uno(func) ELSE decorador_dos(func)

\* the first and the last print of a decorator's wrapper
wrapper_before(d) ==
    IF d = "decorador_uno" THEN [line |-> "Decorador Uno: Antes"]
                           ELSE [line |-> "Decorador Dos: Antes"]

wrapper_after(d) ==
    IF d = "decorador_uno" THEN [line |-> "Decorador Uno: Después"]
                           ELSE [line |-> "Decorador Dos: Después"]

\* A faulty variant of the def statement: the decorators are applied from
\* the top line down.
RECURSIVE DecorateTopDown(_, _)
DecorateTopDown(ds, func) ==
    IF ds = <<>> THEN func
    ELSE DecorateTopDown(Tail(ds), ApplyDecorator(Head(ds), func))

\* @d1 @d2 ... def f: f = d1(d2(...(f))), the decorators are applied from the
\* bottom line up
RECURSIVE Decorate(_, _)
Decorate(ds, func) ==
    IF ds = <<>> THEN func
    ELSE ApplyDecorator(Head(ds), Decorate(Tail(ds), func))

\* the wrapper the running call entered as its k-th
WrapperAt(k) == decir_hola[Len(decir_hola) - k + 1]

\* decir_hola(): the call starts with the object bound to the name
deco_call ==
    /\ deco_phase = "idle"
    /\ deco_calls < MaxDecoCalls
    /\ deco_phase' = "down"
    /\ deco_depth' = 0
    /\ UNCHANGED <<written, decir_hola, deco_stdout, deco_calls, exceptDeco>>

\* a wrapper is entered: it prints its first line and calls func()
deco_enter_wrapper ==
    /\ deco_phase = "down"
    /\ deco_depth < Len(decir_hola)
    /\ deco_stdout' = Append(deco_stdout, wrapper_before(WrapperAt(deco_depth + 1)))
    /\ deco_depth' = deco_depth + 1
    /\ UNCHANGED <<written, decir_hola, deco_phase, deco_calls, exceptDeco>>

\* the original decir_hola runs: print("¡Hola!")
deco_body ==
    /\ deco_phase = "down"
    /\ deco_depth = Len(decir_hola)
    /\ deco_stdout' = Append(deco_stdout, [line |-> "¡Hola!"])
    /\ IF deco_depth = 0
       THEN /\ deco_phase' = "idle"
            /\ deco_calls' = deco_calls + 1
       ELSE /\ deco_phase' = "up"
            /\ deco_calls' = deco_calls
    /\ UNCHANGED <<written, decir_hola, deco_depth, exceptDeco>>

\* func() has returned to a wrapper: it prints its last line and returns
deco_leave_wrapper ==
    /\ deco_phase = "up"
    /\ deco_depth > 0
    /\ deco_stdout' = Append(deco_stdout, wrapper_after(WrapperAt(deco_depth)))
    /\ deco_depth' = deco_depth - 1
    /\ IF deco_depth = 1
       THEN /\ deco_phase' = "idle"
            /\ deco_calls' = deco_calls + 1
       ELSE /\ deco_phase' = "up"
            /\ deco_calls' = deco_calls
    /\ UNCHANGED <<written, decir_hola, exceptDeco>>

\* the module has been loaded: the def statement under its @ lines has run
InitDeco ==
    /\ written \in WrittenStacks
    /\ decir_hola = Decorate(written, <<>>)
    /\ deco_phase = "idle"
    /\ deco_depth = 0
    /\ deco_stdout = <<>>
    /\ deco_calls = 0
    /\ IdleExceptDeco

NextDeco ==
    \/ deco_call
    \/ deco_enter_wrapper
    \/ deco_body
    \/ deco_leave_wrapper

SpecDeco == InitDeco /\ [][NextDeco]_vars

\* the lines one call prints according to the lesson: the first lines of the
\* decorators in the order written, the greeting, the last lines in the
\* opposite order
ExpectedCallOutput ==
    [i \in 1..Len(written) |-> wrapper_before(written[i])]
    \o << [line |-> "¡Hola!"] >>
    \o [i \in 1..Len(written) |-> wrapper_after(written[Len(written) - i + 1])]

RECURSIVE Times(_, _)
Times(lines, n) == IF n = 0 THEN <<>> ELSE lines \o Times(lines, n - 1)

\* C18: with @decorador_uno written above @decorador_dos, every call of
\* decir_hola() prints Decorador Uno: Antes, Decorador Dos: Antes, ¡Hola!,
\* Decorador Dos: Después, Decorador Uno: Después, in that order; in general
\* the decorator written on top runs outermost.
C18_StackedDecoratorsOutput ==
    deco_phase = "idle" =>
        /\ deco_stdout = Times(ExpectedCallOutput, deco_calls)
        /\ written = <<"decorador_uno", "decorador_dos">> =>
              deco_stdout = Times(<< [line |-> "Decorador Uno: Antes"],
                                     [line |-> "Decorador Dos: Antes"],
                                     [line |-> "¡Hola!"],
                                     [line |-> "Decorador Dos: Después"],
                                     [line |-> "Decorador Uno: Después"] >>, deco_calls)

\* C18 witness: decir_hola as the lesson decorates it has been called once
\* and has printed its five lines.
C18_Witness ==
    /\ written = <<"decorador_uno", "decorador_dos">>
    /\ deco_phase = "idle"
    /\ deco_calls = 1
    /\ Len(deco_stdout) = 5
    /\ deco_stdout[1] = [line |-> "Decorador Uno: Antes"]
    /\ deco_stdout[5] = [line |-> "Decorador Uno: Después"]

(***************************************************************************)
(* mutable-and-immutable-objects.md, "Pitfall: Mutable Default Arguments": *)
(* add_to_list with my_list=[] and with my_list=None.  A list object is an *)
(* index into lists; the reference 0 is None.  Object 1 is the list the    *)
(* default [] was evaluated to when the first def statement ran, object 2  *)
(* is a list of the caller's.                                              *)
(***************************************************************************)
DefaultList == 1
CallerList == 2
ListValues == {1, 2}

\* A faulty variant of the my_list=[] version: it appends to a copy of the
\* list it is given.
add_to_list_copying(heap, value, my_list) ==
    [lists |-> Append(heap, Append(heap[my_list], value)), ref |-> Len(heap) + 1]

\* def add_to_list(value, my_list=[]): my_list.append(value); return my_list
add_to_list_mutable(heap, value, my_list) ==
    [lists |-> [heap EXCEPT ![my_list] = Append(@, value)], ref |-> my_list]

\* def add_to_list(value, my_list=None): if my_list is None: my_list = [] ...
add_to_list_none(heap, value, my_list) ==
    IF my_list = 0
    THEN [lists |-> Append(heap, <<value>>), ref |-> Len(heap) + 1]
    ELSE [lists |-> [heap EXCEPT ![my_list] = Append(@, value)], ref |-> my_list]

\* add_to_list(value) or add_to_list(value, my_list) of the first version;
\* an omitted my_list (given = 0) is bound to the default object
call_add_to_list(value, given) ==
    /\ list_calls < MaxListCalls
    /\ list_calls' = list_calls + 1
    /\ LET my_list == IF given = 0 THEN DefaultList ELSE given
           r == add_to_list_mutable(lists, value, my_list) IN
        /\ lists' = r.lists
        /\ last_list_call' = [version |-> "mutable", my_list |-> given,
                              value |-> value, ref |-> r.ref]
    /\ passed_values' = IF given = 0 THEN Append(passed_values, value) ELSE passed_values
    /\ UNCHANGED exceptList

\* add_to_list(value) or add_to_list(value, my_list) of the corrected
\* version; an omitted my_list (given = 0) is bound to None
call_add_to_list_fixed(value, given) ==
    /\ list_calls < MaxListCalls
    /\ list_calls' = list_calls + 1
    /\ LET r == add_to_list_none(lists, value, given) IN
        /\ lists' = r.lists
        /\ last_list_call' = [version |-> "none", my_list |-> given,
                              value |-> value, ref |-> r.ref]
    /\ UNCHANGED <<passed_values, exceptList>>

\* both def statements have run; the caller has an empty list of its own
InitList ==
    /\ lists = << <<>>, <<>> >>
    /\ passed_values = <<>>
    /\ list_calls = 0
    /\ last_list_call = [version |-> None, my_list |-> 0, value |-> 0, ref |-> 0]
    /\ IdleExceptList

NextList ==
    \/ \E value \in ListValues, given \in {0, CallerList} : call_add_to_list(value, given)
    \/ \E value \in ListValues, given \in {0, CallerList} : call_add_to_list_fixed(value, given)

SpecList == InitList /\ [][NextList]_vars

\* C19: successive calls add_to_list(v) of the my_list=[] version that omit
\* my_list share one list: the k-th such call returns all k values passed so
\* far, in call order; the corrected version returns a fresh one-element
\* list [v] on every such call.
C19_DefaultListSharedFixedFresh ==
    [][ list_calls' # list_calls =>
          LET call == last_list_call' IN
              /\ (call.version = "mutable" /\ call.my_list = 0) =>
                    /\ call.ref = DefaultList
                    /\ passed_values' = Append(passed_values, call.value)
                    /\ lists'[call.ref] = passed_values'
              /\ (call.version = "none" /\ call.my_list = 0) =>
                    /\ call.ref \notin DOMAIN lists
                    /\ lists'[call.ref] = <<call.value>>
                    /\ \A r \in DOMAIN lists : lists'[r] = lists[r]
      ]_vars

\* C19 witness: add_to_list(1) and add_to_list(2) of the first version have
\* returned the one list [1, 2]; in between the corrected version returned a
\* new list [2].
C19_Witness ==
    /\ list_calls = 3
    /\ passed_values = <<1, 2>>
    /\ last_list_call = [version |-> "mutable", my_list |-> 0, value |-> 2, ref |-> DefaultList]
    /\ lists = << <<1, 2>>, <<>>, <<2>> >>

(***************************************************************************)
(* Manual.md, "Modifying Class Attributes" (the same as Person.species in  *)
(* 03_attributes-and-methods.md): the class attribute Car.class_variable   *)
(* and the instances of Car.  Only the attribute class_variable is         *)
(* modelled: brand, model and year are never looked up under that name.    *)
(***************************************************************************)
CarInstances == {"car1", "car2"}

AttrValues == {"This is a class-level variable", "New value", "Instance-level modification"}

\* instance.name: the instance's __dict__ first, then the class's
instance_getattr(cls, inst, name) ==
    IF name \in DOMAIN inst THEN inst[name] ELSE cls[name]

\* A faulty variant of instance.name = value: the value is stored in the
\* class the instance belongs to.
instance_setattr_shared(cls, insts, i, name, value) ==
    [cls |-> DictSet(cls, name, value), insts |-> insts]

\* instance.name = value: stored in the instance's __dict__
instance_setattr(cls, insts, i, name, value) ==
    [cls |-> cls, insts |-> [insts EXCEPT ![i] = DictSet(@, name, value)]]

\* Car.class_variable = value
assign_class(value) ==
    /\ attr_assigns < MaxAssigns
    /\ attr_assigns' = attr_assigns + 1
    /\ class_dict' = DictSet(class_dict, "class_variable", value)
    /\ last_assign' = [target |-> "Car", value |-> value]
    /\ UNCHANGED <<instance_dicts, exceptAttr>>

\* car1.class_variable = value
assign_instance(i, value) ==
    /\ attr_assigns < MaxAssigns
    /\ attr_assigns' = attr_assigns + 1
    /\ LET r == instance_setattr(class_dict, instance_dicts, i, "class_variable", value) IN
        /\ class_dict' = r.cls
        /\ instance_dicts' = r.insts
    /\ last_assign' = [target |-> i, value |-> value]
    /\ UNCHANGED exceptAttr

\* class Car: class_variable = "..."; car1 = Car(...); car2 = Car(...)
InitAttr ==
    /\ class_dict = [class_variable |-> "This is a class-level variable"]
    /\ instance_dicts = [i \in CarInstances |-> <<>>]
    /\ attr_assigns = 0
    /\ last_assign = [target |-> None, value |-> None]
    /\ IdleExceptAttr

NextAttr ==
    \/ \E value \in AttrValues : assign_class(value)
    \/ \E i \in CarInstances, value \in AttrValues : assign_instance(i, value)

SpecAttr == InitAttr /\ [][NextAttr]_vars

\* what print(i.class_variable) shows before and after a step
ReadNow(i) == instance_getattr(class_dict, instance_dicts[i], "class_variable")
ReadNext(i) == instance_getattr(class_dict', instance_dicts'[i], "class_variable")

\* C20: assigning Car.class_variable on the class changes the value read
\* through every instance that has not itself assigned that attribute;
\* assigning car1.class_variable on an instance changes only what car1 reads,
\* leaving Car.class_variable and the value read through every other
\* instance unchanged.
C20_ClassAndInstanceAssignment ==
    [][ attr_assigns' # attr_assigns =>
          LET a == last_assign' IN
              IF a.target = "Car"
              THEN /\ class_dict'["class_variable"] = a.value
                   /\ \A i \in CarInstances :
                         "class_variable" \notin DOMAIN instance_dicts[i] =>
                             ReadNext(i) = a.value
              ELSE /\ ReadNext(a.target) = a.value
                   /\ class_dict'["class_variable"] = class_dict["class_variable"]
                   /\ \A j \in CarInstances \ {a.target} : ReadNext(j) = ReadNow(j)
      ]_vars

\* C20 witness: after Car.class_variable = "New value" and
\* car1.class_variable = "Instance-level modification", car1 reads its own
\* value while the class and car2 still read "New value".
C20_Witness ==
    /\ attr_assigns = 2
    /\ last_assign = [target |-> "car1", value |-> "Instance-level modification"]
    /\ class_dict["class_variable"] = "New value"
    /\ ReadNow("car1") = "Instance-level modification"
    /\ "class_variable" \notin DOMAIN instance_dicts["car2"]
    /\ ReadNow("car2") = "New value"

(***************************************************************************)
(* 05_object-serialization.md, "Serializing Custom Objects": Person,       *)
(* PersonEncoder and person_decoder.  An object is its __dict__, a tuple   *)
(* of [key, value] pairs in insertion order; a value is [s |-> a str] or   *)
(* [n |-> an int]; JSON text is a tuple of tokens: punctuation p, key k,   *)
(* string s, number n.                                                     *)
(***************************************************************************)
PersonNames == {"Alice", "Bob", ""}
PersonAges == {0 - 1, 0, 30, 31, 120}

\* Person(name, age): self.name = name; self.age = age
Person__init__(name, age) ==
    << [key |-> "name", value |-> name], [key |-> "age", value |-> age] >>

\* obj.name for an attribute the object has
obj_getattr(obj, name) ==
    LET i == CHOOSE j \in DOMAIN obj : obj[j].key = name IN obj[i].value

\* Person.to_dict(): {"name": self.name, "age": self.age}
Person_to_dict(self) ==
    << [key |-> "name", value |-> obj_getattr(self, "name")],
       [key |-> "age", value |-> obj_getattr(self, "age")] >>

\* PersonEncoder.default(obj) for a Person: obj.__dict__
PersonEncoder_default(obj) == obj

\* json.dumps of a dict of str and int values
json_dumps(dct) ==
    <<[p |-> "{"]>>
      \o Flatten([i \in DOMAIN dct |-> <<[k |-> dct[i].key], dct[i].value>>])
      \o <<[p |-> "}"]>>

\* json.loads of one JSON object, before object_hook: the dict, as a
\* function from its keys
json_loads(text) ==
    LET body == SubSeq(text, 2, Len(text) - 1)
        pairs == 1 .. (Len(body) \div 2)
    IN  [key \in {body[2 * i - 1].k : i \in pairs} |->
            body[2 * (CHOOSE i \in pairs : body[2 * i - 1].k = key)]]

\* A faulty variant of person_decoder: the two arguments are swapped.
person_decoder_swapped(dct) == Person__init__(dct["age"], dct["name"])

\* person_decoder(dct): Person(dct['name'], dct['age'])
person_decoder(dct) == Person__init__(dct["name"], dct["age"])

\* json_string = json.dumps(p.to_dict(), indent=4)
dumps_to_dict ==
    /\ p_obj = <<>>
    /\ dumped_via # "to_dict"
    /\ json_string' = json_dumps(Person_to_dict(person_p))
    /\ dumped_via' = "to_dict"
    /\ UNCHANGED <<person_p, p_obj, exceptPerson>>

\* json_string = json.dumps(p, cls=PersonEncoder, indent=4)
dumps_encoder ==
    /\ p_obj = <<>>
    /\ dumped_via # "PersonEncoder"
    /\ json_string' = json_dumps(PersonEncoder_default(person_p))
    /\ dumped_via' = "PersonEncoder"
    /\ UNCHANGED <<person_p, p_obj, exceptPerson>>

\* p_obj = json.loads(json_string, object_hook=person_decoder)
loads_person ==
    /\ json_string # <<>>
    /\ p_obj = <<>>
    /\ p_obj' = person_decoder(json_loads(json_string))
    /\ UNCHANGED <<person_p, json_string, dumped_via, exceptPerson>>

\* p = Person(name, age); some programs give p a further attribute
InitPerson ==
    /\ \E name \in PersonNames, age \in PersonAges, extra \in {<<>>, <<[key |-> "nickname", value |-> [s |-> "Al"]]>>} :
          person_p = Person__init__([s |-> name], [n |-> age]) \o extra
    /\ json_string = <<>>
    /\ dumped_via = None
    /\ p_obj = <<>>
    /\ IdleExceptPerson

NextPerson ==
    \/ dumps_to_dict
    \/ dumps_encoder
    \/ loads_person

SpecPerson == InitPerson /\ [][NextPerson]_vars

\* C21: serialising a Person with PersonEncoder or with to_dict and decoding
\* the result with json.loads(..., object_hook=person_decoder) yields a
\* Person with the same name and the same age as the original.
C21_PersonRoundTrip ==
    p_obj # <<>> =>
        /\ obj_getattr(p_obj, "name") = obj_getattr(person_p, "name")
        /\ obj_getattr(p_obj, "age") = obj_getattr(person_p, "age")
        /\ {p_obj[i].key : i \in DOMAIN p_obj} = {"name", "age"}

\* C21 witness: Person("Alice", 30) with a nickname went through
\* PersonEncoder, whose text holds the nickname too, and came back as
\* Person("Alice", 30).
C21_Witness ==
    /\ dumped_via = "PersonEncoder"
    /\ Len(person_p) = 3
    /\ Len(json_string) = 8
    /\ p_obj = << [key |-> "name", value |-> [s |-> "Alice"]],
                  [key |-> "age", value |-> [n |-> 30]] >>

(***************************************************************************)
(* The three examples that write a file and read it back: the pickle       *)
(* example (data.pkl) and the json example (data.json) of                  *)
(* 05_object-serialization.md, and FileManager (data.txt) of               *)
(* 10_list-comprehensions-and-lambda-functions.md.                         *)
(***************************************************************************)
Examples == {"pickle", "json", "FileManager"}

ScratchFile(e) ==
    CASE e = "pickle" -> "data.pkl"
      [] e = "json" -> "data.json"
      [] OTHER -> "data.txt"

\* data = {"name": "Alice", "age": 30, "city": "New York"}
scratch_data ==
    << [key |-> "name", value |-> [s |-> "Alice"]],
       [key |-> "age", value |-> [n |-> 30]],
       [key |-> "city", value |-> [s |-> "New York"]] >>

\* what the example writes: pickle.dump(data, file), json.dump(data, file,
\* indent=4), file.write('Hello OOP!')
ExampleContent(e) ==
    CASE e = "pickle" -> << [pickle |-> scratch_data] >>
      [] e = "json" -> json_dumps(scratch_data)
      [] OTHER -> << [s |-> "Hello OOP!"] >>

\* what the example gets from the file's content: pickle.load(file),
\* json.load(file), file.read()
ExampleLoad(e, data) ==
    CASE e = "pickle" -> data[1].pickle
      [] e = "json" -> json_loads(data)
      [] OTHER -> data

\* A faulty variant of the write step: the file is removed once written.
scratch_write_and_remove(files, path, content) ==
    [open(files, path, "w").files EXCEPT ![path] = [exists |-> FALSE, data |-> <<>>]]

\* with open(path, "w") as file: <write content>
scratch_write(files, path, content) ==
    [open(files, path, "w").files EXCEPT ![path].data = content]

\* the first half of an example, run for the first time or run again: the
\* file is written
example_write(e) ==
    /\ ex_pc[e] \in {0, 2}
    /\ ex_runs[e] < MaxExampleRuns
    /\ scratch' = scratch_write(scratch, ScratchFile(e), ExampleContent(e))
    /\ ex_pc' = [ex_pc EXCEPT ![e] = 1]
    /\ ex_read' = [ex_read EXCEPT ![e] = <<>>]
    /\ UNCHANGED <<ex_runs, exceptScratch>>

\* the second half of an example: the file is read back.  A missing file
\* makes read_file return 'File not found.' and makes the two serialization
\* examples end with FileNotFoundError.
example_read(e) ==
    /\ ex_pc[e] = 1
    /\ LET o == open(scratch, ScratchFile(e), "r") IN
          ex_read' = [ex_read EXCEPT ![e] =
              IF o.error = None THEN << ExampleLoad(e, scratch[ScratchFile(e)].data) >>
              ELSE IF e = "FileManager" THEN << << [s |-> "File not found."] >> >>
              ELSE << [exc |-> o.error] >>]
    /\ ex_pc' = [ex_pc EXCEPT ![e] = 2]
    /\ ex_runs' = [ex_runs EXCEPT ![e] = @ + 1]
    /\ UNCHANGED <<scratch, exceptScratch>>

\* before the examples: each file is absent, or there from an earlier run
InitScratch ==
    /\ scratch \in [{ScratchFile(e) : e \in Examples} ->
                       { [exists |-> FALSE, data |-> <<>>],
                         [exists |-> TRUE, data |-> << [s |-> "old"] >>] }]
    /\ ex_pc = [e \in Examples |-> 0]
    /\ ex_read = [e \in Examples |-> <<>>]
    /\ ex_runs = [e \in Examples |-> 0]
    /\ IdleExceptScratch

NextScratch ==
    \/ \E e \in Examples : example_write(e)
    \/ \E e \in Examples : example_read(e)

SpecScratch == InitScratch /\ [][NextScratch]_vars

\* C22 as stated: every scratch file an example creates is deleted again
\* within that example, so it does not exist once the example has finished.
C22_ScratchFilesDeleted ==
    \A e \in Examples : ex_pc[e] = 2 => ~ scratch[ScratchFile(e)].exists

\* C22, amended: no example deletes its scratch file: once an example has
\* written its file, the file exists and holds what the example wrote, also
\* after the example has finished, and the read step got that content back.
C22_ScratchFilesRemain ==
    \A e \in Examples :
        /\ ex_pc[e] >= 1 =>
              /\ scratch[ScratchFile(e)].exists
              /\ scratch[ScratchFile(e)].data = ExampleContent(e)
        /\ ex_pc[e] = 2 =>
              ex_read[e] = << ExampleLoad(e, ExampleContent(e)) >>

\* C22 witness: all three examples have finished and data.pkl, data.json and
\* data.txt are all on disk, none of them having been there before.
C22_Witness ==
    /\ \A e \in Examples : ex_pc[e] = 2 /\ ex_runs[e] = 1 /\ scratch[ScratchFile(e)].exists
    /\ ex_read["FileManager"] = << << [s |-> "Hello OOP!"] >> >>
    /\ ex_read["pickle"] = << scratch_data >>

\* The two sample records after k runs of main().
AliceBobAfter(k) ==
    << [name |-> <<"A", "l", "i", "c", "e">>, age |-> 25 + k, country |-> <<"U", "S", "A">>],
       [name |-> <<"B", "o", "b">>, age |-> 30 + k, country |-> <<"U", "K">>] >>

\* The output recorded in the notebook under the cell that calls main().
RecordedOutput ==
    << [line |-> "Executing read_json..."],
       [line |-> "Execution of read_json completed."], [line |-> ""],
       [line |-> "Executing process_data..."],
       [line |-> "Execution of process_data completed."], [line |-> ""],
       [line |-> "Executing write_json..."],
       [line |-> "Execution of write_json completed."], [line |-> ""],
       [line |-> ""], [line |-> "Iterating through users:"],
       [user |-> [name |-> <<"A", "l", "i", "c", "e">>, age |-> 27, country |-> <<"U", "S", "A">>]],
       [user |-> [name |-> <<"B", "o", "b">>, age |-> 32, country |-> <<"U", "K">>]],
       [line |-> ""], [line |-> "Reading file using context manager:"],
       [text |-> << [p |-> "["],
                    [p |-> "{"], [k |-> "name"], [s |-> <<"A", "l", "i", "c", "e">>],
                    [k |-> "age"], [n |-> 27], [k |-> "country"], [s |-> <<"U", "S", "A">>], [p |-> "}"],
                    [p |-> "{"], [k |-> "name"], [s |-> <<"B", "o", "b">>],
                    [k |-> "age"], [n |-> 32], [k |-> "country"], [s |-> <<"U", "K">>], [p |-> "}"],
                    [p |-> "]"] >>] >>

\* C23: starting with no users.json, after k >= 1 completed runs of main()
\* the file holds exactly two records, Alice with age 25 + k and Bob with
\* age 30 + k, and the k-th run prints those ages; the output recorded in the
\* notebook (ages 27 and 32, no 'File not found' line) is that of the second
\* run and of no other.
C23_RunsFromNoFile ==
    (~ file_at_start.exists /\ runs >= 1) =>
        /\ users_json.exists
        /\ json_load(users_json.text) = [error |-> None, data |-> AliceBobAfter(runs)]
        /\ PrintedUsersOf(cell_output) = AliceBobAfter(runs)
        /\ runs = 1 =>
              [line |-> "File not found. Creating a new file with sample data."]
                  \in Range(cell_output)
        /\ (runs = 2) <=> (cell_output = RecordedOutput)

\* C23 witness: users.json did not exist, main() has run twice, and the
\* second run's output is the one recorded in the notebook.
C23_Witness ==
    /\ ~ file_at_start.exists
    /\ runs = 2
    /\ cell_output = RecordedOutput

(***************************************************************************)
(* read_json(file_path) of core-concepts-exercises.ipynb on any path: the  *)
(* file may be missing, and so may the directory the path names.           *)
(***************************************************************************)

\* write_json(file_path, data) under @logger, where open(file_path, "w")
\* raises FileNotFoundError when the directory of file_path does not exist:
\* the wrapper has printed its first line and the exception passes through it.
write_json_at(dir_exists, file, data) ==
    IF dir_exists
      THEN LET w == write_json(file, data) IN
           [file |-> w.file, out |-> w.out, raised |-> None]
      ELSE [file |-> file, out |-> <<Line("Executing write_json...")>>,
            raised |-> "FileNotFoundError"]

\* read_json(file_path) under @logger. An exception raised inside the
\* except FileNotFoundError handler is not caught by the sibling handlers.
read_json_at(dir_exists, file) ==
    IF ~file.exists
      THEN \* except FileNotFoundError
           LET w == write_json_at(dir_exists, file, sample_data) IN
           IF w.raised # None
             THEN [file   |-> w.file,
                   result |-> <<>>,
                   out    |-> <<Line("Executing read_json..."),
                                Line("File not found. Creating a new file with sample data.")>>
                                \o w.out,
                   raised |-> w.raised]
             ELSE LET r == read_json(file) IN
                  [file |-> r.file, result |-> r.result, out |-> r.out, raised |-> None]
      ELSE LET r == read_json(file) IN
           [file |-> r.file, result |-> r.result, out |-> r.out, raised |-> None]

\* One call read_json(file_path).
call_read_json ==
    /\ rj_calls < MaxReadCalls
    /\ LET r == read_json_at(rj_dir, rj_file) IN
       /\ rj_file' = r.file
       /\ rj_last' = [before |-> rj_file, result |-> r.result, out |-> r.out,
                      raised |-> r.raised]
    /\ rj_calls' = rj_calls + 1
    /\ UNCHANGED <<rj_dir, exceptReadJson>>

\* A file exists only in an existing directory.
InitReadJson ==
    /\ rj_file \in InitFiles
    /\ rj_dir \in BOOLEAN
    /\ rj_file.exists => rj_dir
    /\ rj_calls = 0
    /\ rj_last = [before |-> rj_file, result |-> <<>>, out |-> <<>>, raised |-> None]
    /\ IdleExceptReadJson

NextReadJson == call_read_json

SpecReadJson == InitReadJson /\ [][NextReadJson]_vars

\* C24: read_json(path) never lets FileNotFoundError or json.JSONDecodeError
\* escape: for a missing file it creates the file with the two sample records
\* and returns them; for invalid JSON it prints 'Error decoding JSON file.',
\* returns [] and leaves the file content unchanged.
C24_ReadJsonNeverRaises ==
    rj_calls > 0 =>
        /\ rj_last.raised = None
        /\ ~ rj_last.before.exists =>
              /\ rj_file = [exists |-> TRUE, text |-> json_dump(sample_data)]
              /\ rj_last.result = sample_data
        /\ (rj_last.before.exists /\ json_load(rj_last.before.text).error # None) =>
              /\ Line("Error decoding JSON file.") \in Range(rj_last.out)
              /\ rj_last.result = <<>>
              /\ rj_file = rj_last.before

\* C25: a User's age is greater than 0 in every reachable state, that is
\* after User(name, age) with any integer age followed by any calls of
\* set_age.
C25_AgeAlwaysPositive == user_age > 0

\* C26: member.borrow_book(book) changes only that member's borrowed_books,
\* which gets the book appended; the Library's books, the borrowed_books of
\* every other member and the book itself stay as they were, and the call
\* succeeds whether or not the book is held by the library or is already
\* borrowed, by this member or by another.
C26_BorrowChangesOnlyBorrower ==
    [][\A m \in Members :
          borrow_log'[m] # borrow_log[m] =>
              LET b == borrow_log'[m][Len(borrow_log'[m])] IN
              /\ borrowed_books'[m] = Append(borrowed_books[m], b)
              /\ \A o \in Members \ {m} : borrowed_books'[o] = borrowed_books[o]
              /\ books' = books
              /\ add_calls' = add_calls
              /\ get_info(BookObjects[b]) = ExpectedInfo(b)]_vars

\* C26 witness: no library holds book1, and book1 has been borrowed by
\* member1 and twice by member2.
C26_Witness ==
    /\ books = <<>>
    /\ borrowed_books["member1"] = <<"book1">>
    /\ borrowed_books["member2"] = <<"book1", "book1">>

\* C27: for a BankAccount opened with a balance b >= 0, after any sequence of
\* withdraw calls with any integer amounts (positive, zero or negative) the
\* balance satisfies 0 <= balance <= b.
C27_BalanceWithinOpening ==
    opening_balance >= 0 => (0 <= balance /\ balance <= opening_balance)

(***************************************************************************)
(* core-concepts-exercises.ipynb, step 6: UserIterator(users) keeps a      *)
(* reference to the caller's list (self.users = users), so users.append    *)
(* between __next__ calls lengthens the list the iterator reads.           *)
(***************************************************************************)
\* next(user_iterator)
grow_next ==
    LET nxt == UserIterator__next__(grow_users, grow_index) IN
    /\ Len(grow_results) < MaxGrowCalls
    /\ grow_index' = nxt.index
    /\ grow_results' = Append(grow_results, [raised |-> nxt.raised, value |-> nxt.value])
    /\ UNCHANGED <<grow_users, grow_appends, exceptGrow>>

\* users.append(user) by the holder of the list.
grow_append(user) ==
    /\ grow_appends < MaxAppends
    /\ grow_users' = Append(grow_users, user)
    /\ grow_appends' = grow_appends + 1
    /\ UNCHANGED <<grow_index, grow_results, exceptGrow>>

\* user_iterator = UserIterator(users)
InitGrow ==
    /\ grow_users \in ListsUpTo(IterUsers, MaxGrowUsers)
    /\ grow_index = 0
    /\ grow_results = <<>>
    /\ grow_appends = 0
    /\ IdleExceptGrow

NextGrow ==
    \/ grow_next
    \/ \E user \in IterUsers : grow_append(user)

SpecGrow == InitGrow /\ [][NextGrow]_vars

\* C28: once UserIterator.__next__ has raised StopIteration, every later
\* __next__ call raises it too, also after elements have been appended to
\* the list.
C28_StopIterationIsFinal ==
    \A i, j \in DOMAIN grow_results :
        (i < j /\ grow_results[i].raised) => grow_results[j].raised

(***************************************************************************)
(* design-patterns.md, 1: Singleton() called from two threads.  The        *)
(* interpreter may switch threads between any two steps of __new__: the    *)
(* test of cls._instance, the call super().__new__(cls), the assignment to *)
(* cls._instance and the read of cls._instance for the return.             *)
(***************************************************************************)
Threads == {"t1", "t2"}

\* Where __new__ goes after `if cls._instance is None:`.
Singleton_is_None(instance) ==
    IF instance = 0 THEN "create" ELSE "return"

\* A thread calls Singleton() and evaluates `cls._instance is None`.
th_check(t) ==
    /\ th_pc[t] = "idle"
    /\ th_calls[t] < MaxThreadCalls
    /\ th_calls' = [th_calls EXCEPT ![t] = @ + 1]
    /\ th_pc' = [th_pc EXCEPT ![t] = Singleton_is_None(th_instance)]
    /\ UNCHANGED <<th_instance, th_created, th_obj, th_returned, exceptThreads>>

\* super().__new__(cls): a new object, the next one in order of creation.
th_create(t) ==
    /\ th_pc[t] = "create"
    /\ th_created' = th_created + 1
    /\ th_obj' = [th_obj EXCEPT ![t] = th_created + 1]
    /\ th_pc' = [th_pc EXCEPT ![t] = "assign"]
    /\ UNCHANGED <<th_instance, th_calls, th_returned, exceptThreads>>

\* cls._instance = <the new object>
th_assign(t) ==
    /\ th_pc[t] = "assign"
    /\ th_instance' = th_obj[t]
    /\ th_pc' = [th_pc EXCEPT ![t] = "return"]
    /\ UNCHANGED <<th_created, th_obj, th_calls, th_returned, exceptThreads>>

\* return cls._instance
th_return(t) ==
    /\ th_pc[t] = "return"
    /\ th_returned' = Append(th_returned, [thread |-> t, obj |-> th_instance])
    /\ th_pc' = [th_pc EXCEPT ![t] = "idle"]
    /\ th_obj' = [th_obj EXCEPT ![t] = 0]
    /\ UNCHANGED <<th_instance, th_created, th_calls, exceptThreads>>

\* class Singleton: _instance = None; no call made yet.
InitThreads ==
    /\ th_instance = 0
    /\ th_created = 0
    /\ th_pc = [t \in Threads |-> "idle"]
    /\ th_obj = [t \in Threads |-> 0]
    /\ th_calls = [t \in Threads |-> 0]
    /\ th_returned = <<>>
    /\ IdleExceptThreads

NextThreads ==
    \E t \in Threads : th_check(t) \/ th_create(t) \/ th_assign(t) \/ th_return(t)

SpecThreads == InitThreads /\ [][NextThreads]_vars

\* C29: when two threads call Singleton() concurrently, then for every
\* interleaving of the `cls._instance is None` test and the assignment both
\* calls return the same object and only one instance is created.
C29_OneInstanceAcrossThreads ==
    /\ th_created <= 1
    /\ \A i, j \in DOMAIN th_returned : th_returned[i].obj = th_returned[j].obj

(***************************************************************************)
(* exception-handling.md, 4: the finally example.  The name `file` is      *)
(* bound by the first statement of the try block only if open() succeeds;  *)
(* before the example it is unbound or, in a session that used the name    *)
(* before, bound to an earlier file object.                                *)
(***************************************************************************)
FinTexts == ListsUpTo({"a", "b", "c", "\n"}, MaxTextLen)

\* try: file = open("data.txt", "r"); data = file.read()
try_block(exists, text, file, opened) ==
    IF exists
      THEN [file |-> "data.txt", opened |-> opened \cup {"data.txt"},
            data |-> <<text>>, pc |-> "finally"]
      ELSE \* open() raises FileNotFoundError before `file` is assigned
           [file |-> file, opened |-> opened, data |-> <<>>, pc |-> "except"]

\* finally: file.close()
finally_block(file, opened) ==
    IF file = "unbound"
      THEN [opened |-> opened, raised |-> "NameError"]
      ELSE [opened |-> opened \ {file}, raised |-> None]

fin_try ==
    /\ fin_pc = "try"
    /\ LET r == try_block(fin_exists, fin_text, fin_file, fin_open) IN
       /\ fin_file' = r.file
       /\ fin_open' = r.opened
       /\ fin_data' = r.data
       /\ fin_pc' = r.pc
    /\ UNCHANGED <<fin_exists, fin_text, fin_stdout, fin_raised, exceptFinally>>

\* except FileNotFoundError: print("File not found.")
fin_except ==
    /\ fin_pc = "except"
    /\ fin_stdout' = Append(fin_stdout, Line("File not found."))
    /\ fin_pc' = "finally"
    /\ UNCHANGED <<fin_exists, fin_text, fin_file, fin_open, fin_data, fin_raised, exceptFinally>>

fin_finally ==
    /\ fin_pc = "finally"
    /\ LET r == finally_block(fin_file, fin_open) IN
       /\ fin_open' = r.opened
       /\ fin_raised' = r.raised
    /\ fin_pc' = "done"
    /\ UNCHANGED <<fin_exists, fin_text, fin_file, fin_data, fin_stdout, exceptFinally>>

InitFinally ==
    /\ fin_exists \in BOOLEAN
    /\ fin_text \in (IF fin_exists THEN FinTexts ELSE { <<>> })
    /\ fin_file \in {"unbound", "earlier"}
    /\ fin_open \in (IF fin_file = "earlier" THEN { {}, {"earlier"} } ELSE { {} })
    /\ fin_data = <<>>
    /\ fin_pc = "try"
    /\ fin_stdout = <<>>
    /\ fin_raised = None
    /\ IdleExceptFinally

NextFinally ==
    \/ fin_try
    \/ fin_except
    \/ fin_finally

SpecFinally == InitFinally /\ [][NextFinally]_vars

\* C30: the try/except/finally example ends without an unhandled exception
\* both when data.txt exists and when it does not; when it is missing the
\* example prints 'File not found.' and the finally block's file.close()
\* completes without raising.
C30_FinallyNeverRaises ==
    fin_pc = "done" =>
        /\ fin_raised = None
        /\ ~ fin_exists => fin_stdout = <<Line("File not found.")>>

=============================================================================
